---- MODULE Spec2Model ----
(***************************************************************************)
(* Curation pipeline of the news fetcher: same-topic judgment, the two     *)
(* deduplication passes, scoring, per-category selection                   *)
(* (scripts/core/models.py, scripts/core/processor.py) and the             *)
(* scoring-aware ingestion loop of scripts/fetch_news.py.                  *)
(*                                                                         *)
(* Strings are sequences of one-character strings, so that lower(),        *)
(* substring tests ("x in s") and split() are computed, not assumed.       *)
(* Scores are exact integers in units of 1/ScoreUnit.                      *)
(***************************************************************************)
EXTENDS Integers, Sequences, FiniteSets, TLC

VARIABLES
    pc,                 \* position of the modelled call
    op,                 \* which operation the run exercises
    pass,               \* 1 on the first application, 2 on the re-application to its own output
    input,              \* the list (or pair, or single item) the operation was called with
    articles,           \* unique_articles / self.articles / the list being built or returned
    i,                  \* outer loop position (index into input)
    j,                  \* inner loop position (index into articles)
    is_similar,         \* the is_similar flag of the dedup loops
    judged,             \* history: the same-topic verdicts returned so far in this call
    ai_available,       \* ai_service.is_available / bool(anthropic_api_key)
    candidate,          \* the article the ingestion loop has built from the current entry
    seen_hashes,        \* NewsFetcher.seen_hashes
    result,             \* value returned by a pure call (a verdict, a score)
    target_categories,  \* the category catalog
    config_settings,    \* the global settings
    replies,            \* history: per categorization batch, the backend's reply and the
                        \* list batch_categorize made of it
    summary,            \* the summary field of the articles, by article id
    clock,              \* time.time(), in ticks
    last_call_time,     \* AIServiceManager.last_call_time
    response_cache,     \* AIServiceManager._response_cache: key -> (response, timestamp)
    stats,              \* AIServiceManager.stats
    requests,           \* history: the requests sent to the backend, with their send times
    call,               \* the call_claude invocation in progress, or the last one made
    min_cluster_size,   \* CategoryDiscovery.min_cluster_size
    term_frequencies,   \* CategoryDiscovery.term_frequencies, in halves
    discovered_patterns,\* CategoryDiscovery.discovered_patterns: suggestion name -> record
    emerging_topics,    \* CategoryDiscovery.emerging_topics: the trend list
    history_file,       \* the content of data/category_discovery.json
    loaded,             \* history: discovered_patterns and emerging_topics as load_history left them
    discovery           \* the analyze_uncategorized_patterns run in progress, or the last one made

pipeline_vars == <<replies, summary>>
service_vars == <<clock, last_call_time, response_cache, stats, requests, call>>
discovery_vars == <<min_cluster_size, term_frequencies, discovered_patterns, emerging_topics,
                    history_file, loaded, discovery>>

vars == <<pc, op, pass, input, articles, i, j, is_similar, judged, ai_available, candidate,
          seen_hashes, result, target_categories, config_settings, pipeline_vars, service_vars,
          discovery_vars>>

-----------------------------------------------------------------------------
(* Bounds *)

MaxWords == 2        \* words per generated title (keyword judgment)
MaxArticles == 3     \* length of an input list
MaxTokens == 7       \* tokens of the longest generated title (fuzzy title pass)
MaxAgeHours == 50    \* publish times range from MaxAgeHours in the future to MaxAgeHours ago
MaxCalls == 2        \* invocations of the backend client in one run
MaxRateLimited == 2  \* answers with a rate-limit status the backend gives in one run
MaxIdle == 2         \* times the clock advances on its own in one run

-----------------------------------------------------------------------------
(* Strings *)

UpperChars == <<"A","B","C","D","E","F","G","H","I","J","K","L","M",
                "N","O","P","Q","R","S","T","U","V","W","X","Y","Z">>
LowerChars == <<"a","b","c","d","e","f","g","h","i","j","k","l","m",
                "n","o","p","q","r","s","t","u","v","w","x","y","z">>

\* the lower-case letter of every upper-case letter
LowerMap ==
    [c \in { UpperChars[n] : n \in 1..26 } |->
        LowerChars[CHOOSE n \in 1..26 : UpperChars[n] = c]]

LowerChar(c) == IF c \in DOMAIN LowerMap THEN LowerMap[c] ELSE c

\* str.lower()
Lower(s) == [n \in 1..Len(s) |-> LowerChar(s[n])]

\* "sub in s"
Contains(s, sub) ==
    \E n \in 1..(Len(s) - Len(sub) + 1) : \A k \in 1..Len(sub) : s[n + k - 1] = sub[k]

\* any(w in s for w in ws)
ContainsAny(s, ws) == \E w \in ws : Contains(s, w)

IsSpace(c) == c \in {" ", "\n", "\t"}

\* the positions at which a whitespace-delimited word of s starts
WordStarts(s) ==
    { a \in 1..Len(s) : ~IsSpace(s[a]) /\ (a = 1 \/ IsSpace(s[a - 1])) }

\* the position at which the word starting at a ends
WordEnd(s, a) ==
    CHOOSE b \in a..Len(s) :
        /\ \A n \in a..b : ~IsSpace(s[n])
        /\ (b = Len(s) \/ IsSpace(s[b + 1]))

\* set(s.split()): the maximal runs of non-whitespace characters
Tokens(s) == { SubSeq(s, a, WordEnd(s, a)) : a \in WordStarts(s) }

RECURSIVE JoinWords(_)
\* " ".join(ws)
JoinWords(ws) ==
    IF ws = <<>> THEN <<>>
    ELSE IF Len(ws) = 1 THEN ws[1]
    ELSE ws[1] \o <<" ">> \o JoinWords(Tail(ws))

SeqsUpTo(S, n) == UNION { [1..m -> S] : m \in 0..n }

-----------------------------------------------------------------------------
(* Articles *)

\* NewsArticle: id stands for the identity of the Python object; age_hours is
\* (datetime.now() - published) in hours, score in units of 1/ScoreUnit.
MkArticle(id, title, url, description, category, age_hours, score) ==
    [id |-> id, title |-> title, url |-> url, description |-> description,
     category |-> category, age_hours |-> age_hours, score |-> score]

-----------------------------------------------------------------------------
(* NewsArticle._is_similar_keyword_based *)

W_microsoft == <<"m","i","c","r","o","s","o","f","t">>
W_patch_tuesday == <<"p","a","t","c","h"," ","t","u","e","s","d","a","y">>
W_patch == <<"p","a","t","c","h">>
W_vulnerability == <<"v","u","l","n","e","r","a","b","i","l","i","t","y">>
W_flaw == <<"f","l","a","w">>
W_update == <<"u","p","d","a","t","e">>
W_fix == <<"f","i","x">>

\* the phrases of the "Microsoft patch tuesday detection" rule
PatchPhrases == {W_patch_tuesday, W_patch, W_vulnerability, W_flaw}

\* companies = [...]
companies == <<W_microsoft, <<"g","o","o","g","l","e">>, <<"a","p","p","l","e">>, <<"a","d","o","b","e">>, <<"c","i","s","c","o">>, <<"v","m","w","a","r","e">>>>

\* the words of the "same company + similar security keywords" rule
SecurityWords == {W_vulnerability, W_patch, W_update, W_fix}

\* the variant a missing "company in other_lower" test would give
is_similar_keyword_based_one_sided(self, other_article) ==
    LET self_lower == Lower(self.title)
        other_lower == Lower(other_article.title)
    IN  \/ /\ Contains(self_lower, W_microsoft)
           /\ ContainsAny(self_lower, PatchPhrases)
           /\ ContainsAny(other_lower, PatchPhrases)
        \/ \E n \in 1..Len(companies) :
              /\ Contains(self_lower, companies[n])
              /\ ContainsAny(self_lower, SecurityWords)
              /\ ContainsAny(other_lower, SecurityWords)

\* the variant that tests only the first company of the list
is_similar_keyword_based_first_company(self, other_article) ==
    LET self_lower == Lower(self.title)
        other_lower == Lower(other_article.title)
    IN  \/ /\ Contains(self_lower, W_microsoft) /\ Contains(other_lower, W_microsoft)
           /\ ContainsAny(self_lower, PatchPhrases)
           /\ ContainsAny(other_lower, PatchPhrases)
        \/ /\ Contains(self_lower, companies[1])
           /\ Contains(other_lower, companies[1])
           /\ ContainsAny(self_lower, SecurityWords)
           /\ ContainsAny(other_lower, SecurityWords)

is_similar_keyword_based(self, other_article) ==
    LET self_lower == Lower(self.title)
        other_lower == Lower(other_article.title)
    IN  \/ /\ Contains(self_lower, W_microsoft) /\ Contains(other_lower, W_microsoft)
           /\ ContainsAny(self_lower, PatchPhrases)
           /\ ContainsAny(other_lower, PatchPhrases)
        \/ \E n \in 1..Len(companies) :
              /\ Contains(self_lower, companies[n])
              /\ Contains(other_lower, companies[n])
              /\ ContainsAny(self_lower, SecurityWords)
              /\ ContainsAny(other_lower, SecurityWords)

-----------------------------------------------------------------------------
(* Inputs of the keyword judgment: titles of up to MaxWords words of a     *)
(* vocabulary, and the four titles of the documented scenarios             *)

Vocabulary ==
    { <<"M","i","c","r","o","s","o","f","t">>,
      <<"G","o","o","g","l","e">>,
      <<"f","l","a","w">>, <<"u","p","d","a","t","e">>, <<"p","a","t","c","h">>,
      <<"v","u","l","n","e","r","a","b","i","l","i","t","i","e","s">> }

T_Chrome == <<"C","h","r","o","m","e"," ","1","1","6"," ","r","e","l","e","a","s","e","d">>
T_Firefox == <<"F","i","r","e","f","o","x"," ","1","1","7"," ","r","e","l","e","a","s","e","d">>
T_PatchTuesday == <<"M","i","c","r","o","s","o","f","t"," ","P","a","t","c","h"," ","T","u","e","s","d","a","y"," ","A","u","g","u","s","t"," ","2","0","2","5">>
T_Fixes107 == <<"M","i","c","r","o","s","o","f","t"," ","f","i","x","e","s"," ","1","0","7"," ","v","u","l","n","e","r","a","b","i","l","i","t","i","e","s"," ","i","n"," ","A","u","g","u","s","t"," ","u","p","d","a","t","e">>

ScenarioTitles == {T_Chrome, T_Firefox, T_PatchTuesday, T_Fixes107}

KeywordTitles == { JoinWords(ws) : ws \in SeqsUpTo(Vocabulary, MaxWords) } \cup ScenarioTitles

U1 == <<"u","1">>
U2 == <<"u","2">>

-----------------------------------------------------------------------------
(* Values of the variables an operation does not use *)

NoCatalog == <<>>
NoSettings == <<>>

NoArticle == MkArticle(0, <<>>, <<>>, <<>>, "none", 0, 0)

NoLoop == i = 0 /\ j = 0 /\ is_similar = FALSE /\ judged = {} /\ candidate = NoArticle
NoFetcher == seen_hashes = {}
NoConfig == target_categories = NoCatalog /\ config_settings = NoSettings

\* AIServiceManager.__init__: the counters of a new service
NoStats == [total_calls |-> 0, cache_hits |-> 0, errors |-> 0, total_tokens_used |-> 0]
NoCall == [pc |-> "idle", n |-> 0]

NoPipeline == replies = <<>> /\ summary = <<>>
NoRun == [pc |-> "idle", n |-> 0]
NoDiscovery ==
    /\ min_cluster_size = 0 /\ term_frequencies = <<>>
    /\ discovered_patterns = <<>> /\ emerging_topics = <<>>
    /\ history_file = <<>> /\ loaded = <<>>
    /\ discovery = NoRun
NoService ==
    /\ clock = 0 /\ last_call_time = 0 /\ response_cache = <<>>
    /\ stats = NoStats /\ requests = <<>> /\ call = NoCall

-----------------------------------------------------------------------------
(* Specification SpecKeyword: one call a._is_similar_keyword_based(b)      *)

InitKeyword ==
    /\ NoPipeline /\ NoService /\ NoDiscovery
    /\ op = "keyword" /\ pc = "start" /\ pass = 1
    /\ \E ta \in KeywordTitles, tb \in KeywordTitles :
          input = << MkArticle(1, ta, U1, <<>>, "uncategorized", 0, 0),
                     MkArticle(2, tb, U2, <<>>, "uncategorized", 0, 0) >>
    /\ articles = <<>>
    /\ ai_available = FALSE
    /\ result = "none"
    /\ NoLoop /\ NoFetcher /\ NoConfig

JudgeKeyword ==
    /\ op = "keyword" /\ pc = "start"
    /\ result' = is_similar_keyword_based(input[1], input[2])
    /\ pc' = "done"
    /\ UNCHANGED <<op, pass, input, articles, i, j, is_similar, judged, ai_available, candidate,
                   seen_hashes, target_categories, config_settings,
                   pipeline_vars, service_vars, discovery_vars>>

NextKeyword == JudgeKeyword

SpecKeyword == InitKeyword /\ [][NextKeyword]_vars

KeywordJudged == op = "keyword" /\ pc = "done"

\* C8: the keyword-fallback judgment is symmetric: the verdict returned for
\* (a, b) is the verdict of the call with the two articles exchanged.
C8_KeywordSymmetric ==
    KeywordJudged => result = is_similar_keyword_based(input[2], input[1])

\* a positive verdict on two different titles, only one of which names the
\* patch-cycle phrases
C8_Witness ==
    /\ KeywordJudged /\ result = TRUE
    /\ input[1].title # input[2].title
    /\ ContainsAny(Lower(input[1].title), PatchPhrases)
    /\ ~ContainsAny(Lower(input[2].title), PatchPhrases)

CompanyNames == { companies[n] : n \in 1..Len(companies) }

CompanyInBoth(a, b) ==
    \E c \in CompanyNames : Contains(Lower(a.title), c) /\ Contains(Lower(b.title), c)

\* C9: a positive verdict needs a listed company named in both titles; a
\* listed company in both titles together with a security word in each title
\* gives a positive verdict; the Chrome/Firefox pair is judged different and
\* the two Microsoft August titles are judged the same.
C9_KeywordRule ==
    KeywordJudged =>
        LET a == input[1]
            b == input[2]
        IN  /\ result = TRUE => CompanyInBoth(a, b)
            /\ ( /\ CompanyInBoth(a, b)
                 /\ ContainsAny(Lower(a.title), SecurityWords)
                 /\ ContainsAny(Lower(b.title), SecurityWords) ) => result = TRUE
            /\ (a.title = T_Chrome /\ b.title = T_Firefox) => result = FALSE
            /\ (a.title = T_PatchTuesday /\ b.title = T_Fixes107) => result = TRUE

\* the two Microsoft August titles have been judged
C9_Witness ==
    /\ KeywordJudged /\ result = TRUE
    /\ input[1].title = T_PatchTuesday /\ input[2].title = T_Fixes107

-----------------------------------------------------------------------------
(* NewsArticle.calculate_score                                             *)
(* A score s is held as the integer s * ScoreUnit; weights, relevance and  *)
(* multipliers are held in tenths.  ScoreUnit makes every term exact.      *)

ScoreUnit == 48000

Max(a, b) == IF a >= b THEN a ELSE b
Min(a, b) == IF a <= b THEN a ELSE b

\* dict.get(key, default)
Get(dict, key, default) == IF key \in DOMAIN dict THEN dict[key] ELSE default

\* "if d and k in d": None and {} are both the empty mapping
Has(dict, key) == key \in DOMAIN dict

\* freshness_score = max(0, 1 - age_hours / 48), in 48ths
freshness_score(age_hours) == Max(0, 48 - age_hours)

RECURSIVE KeywordHits(_, _)
\* the number of "relevance_score += 0.1" executed by the keyword loop
KeywordHits(keywords, text) ==
    IF keywords = <<>> THEN 0
    ELSE (IF Contains(text, Head(keywords)) THEN 1 ELSE 0) + KeywordHits(Tail(keywords), text)

\* relevance_score, in tenths
relevance_score(self, categories) ==
    LET combined_text == Lower(self.title) \o <<" ">> \o Lower(self.description)
        hits == IF Has(categories, self.category)
                THEN KeywordHits(categories[self.category].keywords, combined_text)
                ELSE 0
    IN  Min(10, 5 + hits)

\* base_score after the category multiplier and the time-based adjustment
base_score(self, source_weight, categories, settings) ==
    LET composite == 300 * freshness_score(self.age_hours)
                     + 1440 * source_weight
                     + 1920 * relevance_score(self, categories)
        multiplied == IF Has(categories, self.category)
                      THEN (composite * Get(categories[self.category], "score_multiplier", 10)) \div 10
                      ELSE composite
    IN  IF settings # NoSettings /\ self.age_hours < 6
        THEN multiplied + Get(settings, "recent_article_boost", 0)
        ELSE IF settings # NoSettings /\ self.age_hours > 24
        THEN multiplied + Get(settings, "old_article_penalty", 0)
        ELSE multiplied

\* the variant without the final clamp
calculate_score_unclamped(self, source_weight, categories, settings) ==
    base_score(self, source_weight, categories, settings)

calculate_score(self, source_weight, categories, settings) ==
    Max(0, base_score(self, source_weight, categories, settings))

-----------------------------------------------------------------------------
(* Specification SpecScore: one call article.calculate_score(weight,       *)
(* target_categories, config_settings)                                     *)

AgeHours == (0 - MaxAgeHours)..MaxAgeHours
SourceWeights == {0, 8, 10}

ScoreTitles == { W_patch, W_flaw \o <<" ">> \o W_patch }
ScoreKeywords == <<W_patch, W_flaw, W_fix>>

\* catalogs: none, or an "ai" entry with or without a score_multiplier
ScoreCatalogs ==
    {NoCatalog}
    \cup { [c \in {"ai"} |-> [keywords |-> ScoreKeywords]] }
    \cup { [c \in {"ai"} |-> [keywords |-> ScoreKeywords, score_multiplier |-> m]] : m \in {-10, 0, 15} }

\* settings: none, or a boost and/or a penalty (in score units)
ScoreSettings ==
    {NoSettings}
    \cup { [recent_article_boost |-> b] : b \in {4800} }
    \cup { [old_article_penalty |-> p] : p \in {-4800, -96000} }
    \cup { [recent_article_boost |-> b, old_article_penalty |-> p] : b \in {0, 4800}, p \in {-96000, 2400} }

InitScore ==
    /\ NoPipeline /\ NoService /\ NoDiscovery
    /\ op = "score" /\ pc = "start" /\ pass = 1
    /\ \E t \in ScoreTitles, c \in {"ai", "webdev"}, a \in AgeHours :
          input = << MkArticle(1, t, U1, <<>>, c, a, 0) >>
    /\ articles = input
    /\ result \in SourceWeights
    /\ target_categories \in ScoreCatalogs
    /\ config_settings \in ScoreSettings
    /\ ai_available = FALSE
    /\ NoLoop /\ NoFetcher

\* result holds the source_weight argument before the call and the returned
\* score after it; the score is also assigned to self.score
CalculateScore ==
    /\ op = "score" /\ pc = "start"
    /\ result' = calculate_score(articles[1], result, target_categories, config_settings)
    /\ articles' = << [articles[1] EXCEPT !.score = result'] >>
    /\ pc' = "done"
    /\ UNCHANGED <<op, pass, input, i, j, is_similar, judged, ai_available, candidate,
                   seen_hashes, target_categories, config_settings,
                   pipeline_vars, service_vars, discovery_vars>>

NextScore == CalculateScore

SpecScore == InitScore /\ [][NextScore]_vars

Scored == op = "score" /\ pc = "done"

\* C10: after calculate_score the returned score and the item's score field
\* are never negative, whatever the publish time, weight, multiplier and
\* configured boost or penalty.
C10_ScoreNonNegative ==
    Scored => result >= 0 /\ articles[1].score >= 0 /\ articles[1].score = result

\* an old item whose configured penalty is larger than any composite score
\* has been scored
C10_Witness ==
    /\ Scored
    /\ input[1].age_hours > 24
    /\ Get(config_settings, "old_article_penalty", 0) <= 0 - 2 * ScoreUnit
    /\ result = 0

\* the freshness term calculate_score used for the scored item, in 48ths
FreshnessUsed == freshness_score(input[1].age_hours)

\* C11: the freshness component computed by calculate_score lies in [0,1]
\* (0..48 in 48ths) for every publish time, earlier or later than the clock
\* reading, and is 0 for every item older than 48 hours.
C11_FreshnessInUnitRange ==
    Scored => /\ FreshnessUsed >= 0
              /\ FreshnessUsed <= 48
              /\ (input[1].age_hours > 48 => FreshnessUsed = 0)

-----------------------------------------------------------------------------
(* ArticleProcessor._similarity and _remove_similar_articles               *)

\* _similarity(s1, s2) as the exact fraction <<numerator, denominator>>
similarity(s1, s2) ==
    LET s1_lower == Lower(s1)
        s2_lower == Lower(s2)
        words1 == Tokens(s1_lower)
        words2 == Tokens(s2_lower)
    IN  IF s1_lower = s2_lower THEN <<1, 1>>
        ELSE IF words1 = {} \/ words2 = {} THEN <<0, 1>>
        ELSE << Cardinality(words1 \cap words2), Cardinality(words1 \cup words2) >>

\* the variant whose test is "x >= 0.8"
Above80_inclusive(x) == 5 * x[1] >= 4 * x[2]

\* "x > 0.8" for a fraction x
Above80(x) == 5 * x[1] > 4 * x[2]

\* the is_duplicate flag of one candidate: seen_titles are the titles of
\* unique_articles, in the same order
is_duplicate(article, unique_articles) ==
    \E n \in 1..Len(unique_articles) :
        Above80(similarity(article.title, unique_articles[n].title))

RECURSIVE RemoveSimilarLoop(_, _)
RemoveSimilarLoop(rest, unique_articles) ==
    IF rest = <<>> THEN unique_articles
    ELSE RemoveSimilarLoop(Tail(rest),
             IF is_duplicate(Head(rest), unique_articles)
             THEN unique_articles
             ELSE Append(unique_articles, Head(rest)))

\* the variant that remembers only the title seen last
remove_similar_articles_previous_only(list) ==
    LET kept == { n \in 1..Len(list) :
                    n = 1 \/ ~Above80(similarity(list[n].title, list[n - 1].title)) }
        nth(k) == CHOOSE n \in kept : Cardinality({ m \in kept : m < n }) = k - 1
    IN  [k \in 1..Cardinality(kept) |-> list[nth(k)]]

remove_similar_articles(list) == RemoveSimilarLoop(list, <<>>)

-----------------------------------------------------------------------------
(* ArticleProcessor._filter_and_rank                                       *)

\* insertion of x into a list sorted by descending score, before the first
\* item of the same or a lower score
InsertBeforeEqual(sorted, x) ==
    LET before == { n \in 1..Len(sorted) : sorted[n].score > x.score }
        k == Cardinality(before)
    IN  SubSeq(sorted, 1, k) \o <<x>> \o SubSeq(sorted, k + 1, Len(sorted))

\* insertion of x into a list sorted by descending score, after every item of
\* the same or a higher score
InsertAfterEqual(sorted, x) ==
    LET before == { n \in 1..Len(sorted) : sorted[n].score >= x.score }
        k == Cardinality(before)
    IN  SubSeq(sorted, 1, k) \o <<x>> \o SubSeq(sorted, k + 1, Len(sorted))

RECURSIVE SortLoopUnstable(_, _)
SortLoopUnstable(rest, sorted) ==
    IF rest = <<>> THEN sorted
    ELSE SortLoopUnstable(Tail(rest), InsertBeforeEqual(sorted, Head(rest)))

RECURSIVE SortLoop(_, _)
SortLoop(rest, sorted) ==
    IF rest = <<>> THEN sorted
    ELSE SortLoop(Tail(rest), InsertAfterEqual(sorted, Head(rest)))

\* the variant that sorts ties in reverse input order
sort_by_score_unstable(list) == SortLoopUnstable(list, <<>>)

\* the variant that sorts by ascending score (reverse=True forgotten)
sort_by_score_ascending(list) ==
    LET desc == SortLoop(list, <<>>)
    IN  [n \in 1..Len(desc) |-> desc[Len(desc) + 1 - n]]

\* articles.sort(key=lambda x: x.score, reverse=True): stable, descending
sort_by_score(list) == SortLoop(list, <<>>)

\* self.max_articles_per_category
max_articles_per_category(settings) == Get(settings, "default_max_articles", 5)

\* target_categories.get(category, {}).get('max_articles', default)
max_articles(categories, settings, category) ==
    Get(Get(categories, category, <<>>), "max_articles", max_articles_per_category(settings))

\* the variant whose test is "category_counts[...] <= max_articles"
keep_test_off_by_one(count, cap) == count <= cap

\* category_counts[article.category] < max_articles
keep_test(count, cap) == count < cap

RECURSIVE KeepTopLoop(_, _, _, _, _)
\* the walk over the sorted list with the per-category running counts
KeepTopLoop(rest, filtered, category_counts, categories, settings) ==
    IF rest = <<>> THEN filtered
    ELSE LET article == Head(rest)
             c == article.category
         IN  IF /\ c \in DOMAIN category_counts
                /\ keep_test(category_counts[c], max_articles(categories, settings, c))
             THEN KeepTopLoop(Tail(rest), Append(filtered, article),
                              [category_counts EXCEPT ![c] = @ + 1], categories, settings)
             ELSE KeepTopLoop(Tail(rest), filtered, category_counts, categories, settings)

\* the variant that also counts every category met in the list
initial_counts_of_list(list, categories) ==
    [c \in DOMAIN categories \cup { list[n].category : n \in 1..Len(list) } |-> 0]

\* "for category in self.target_categories.keys(): category_counts[category] = 0"
initial_counts(list, categories) == [c \in DOMAIN categories |-> 0]

filter_and_rank(list, categories, settings) ==
    LET deduplicated == remove_similar_articles(list)
    IN  IF deduplicated = <<>> THEN <<>>
        ELSE KeepTopLoop(sort_by_score(deduplicated), <<>>,
                         initial_counts(deduplicated, categories), categories, settings)

-----------------------------------------------------------------------------
(* Specification SpecRank: one call _filter_and_rank(articles)             *)

DigitChars == <<"0","1","2","3","4","5","6","7","8","9">>

\* str(n) for 0 <= n <= 99
Numeral(n) ==
    IF n < 10 THEN << DigitChars[n + 1] >>
    ELSE << DigitChars[(n \div 10) + 1], DigitChars[(n % 10) + 1] >>

\* a title no other item of the list resembles
OwnTitle(n) == <<"i","t","e","m"," ">> \o Numeral(n)

\* a title shared, up to letter case, by every item that takes it
SharedTitle(n) == IF n % 2 = 1 THEN <<"N","e","w","s">> ELSE <<"n","e","w","s">>

RankCategories == {"ai", "webdev", "misc"}
RankScores == {1, 2, 3}

\* the sets of positions that carry the shared title: none, or the first two
SharedPositions(m) == IF m >= 2 THEN { {}, {1, 2} } ELSE { {} }

\* the list to rank whose item n has category cs[n] and score ss[n], and the
\* shared title when n is in D
RankList(m, cs, ss, D) ==
    [n \in 1..m |->
        MkArticle(n, IF n \in D THEN SharedTitle(n) ELSE OwnTitle(n),
                  <<"u">> \o Numeral(n), <<>>, cs[n], 0, ss[n])]

\* a catalog with the keys "ai" and "webdev"; "misc" is no key of the catalog
RankCatalog(ai) ==
    [c \in {"ai", "webdev"} |->
        IF c = "ai" THEN ai ELSE [keywords |-> <<>>, max_articles |-> 1]]

\* configurations <<catalog, settings>>: "ai" without a cap of its own under
\* the built-in and under a configured default, and with a cap of its own
RankConfigs ==
    { << RankCatalog([keywords |-> <<>>]), NoSettings >>,
      << RankCatalog([keywords |-> <<>>]), [default_max_articles |-> 1] >>,
      << RankCatalog([keywords |-> <<>>, max_articles |-> 1]), NoSettings >>,
      << RankCatalog([keywords |-> <<>>, max_articles |-> 2]), [default_max_articles |-> 1] >> }

\* the documented scenario: 25 items, 10 of them "ai" with pairwise distinct
\* scores, in 5 different arrangements r
ScenarioList(r) ==
    [n \in 1..25 |->
        MkArticle(n, OwnTitle(n), <<"u">> \o Numeral(n), <<>>,
                  IF (n + r) % 5 \in {0, 2} THEN "ai"
                  ELSE IF (n + r) % 5 = 1 THEN "webdev" ELSE "misc",
                  0, ((7 * n + r) % 25) + 1)]

ScenarioConfig == << RankCatalog([keywords |-> <<>>, max_articles |-> 5]), NoSettings >>

InitRank ==
    /\ NoPipeline /\ NoService /\ NoDiscovery
    /\ op = "rank" /\ pc = "start" /\ pass = 1
    /\ \/ /\ \E m \in 0..MaxArticles :
                \E cs \in [1..m -> RankCategories], ss \in [1..m -> RankScores],
                   D \in SharedPositions(m) :
                    input = RankList(m, cs, ss, D)
          /\ \E cfg \in RankConfigs : target_categories = cfg[1] /\ config_settings = cfg[2]
       \/ /\ \E r \in 0..4 : input = ScenarioList(r)
          /\ target_categories = ScenarioConfig[1] /\ config_settings = ScenarioConfig[2]
    /\ articles = input
    /\ ai_available = FALSE
    /\ result = "none"
    /\ NoLoop /\ NoFetcher

\* _filter_and_rank is running: called on its own, or as the fourth step of
\* process_articles
Ranking == op = "rank" \/ (op = "process" /\ pass = 4)

FilterAndRank ==
    /\ Ranking /\ pc = "start"
    /\ articles' = filter_and_rank(articles, target_categories, config_settings)
    /\ pc' = "done"
    /\ UNCHANGED <<op, pass, input, i, j, is_similar, judged, ai_available, candidate,
                   seen_hashes, result, target_categories, config_settings,
                   pipeline_vars, service_vars, discovery_vars>>

NextRank == FilterAndRank

SpecRank == InitRank /\ [][NextRank]_vars

Ranked == op = "rank" /\ pc = "done"

\* the items of a list that belong to category c
OfCategory(list, c) == { n \in 1..Len(list) : list[n].category = c }

\* the cap the configuration gives category c
ConfiguredCap(c) ==
    IF "max_articles" \in DOMAIN target_categories[c]
    THEN target_categories[c].max_articles
    ELSE IF "default_max_articles" \in DOMAIN config_settings
         THEN config_settings.default_max_articles
         ELSE 5

\* C1: the returned list holds, for each catalog category, at most that
\* category's max_articles items, or at most default_max_articles when the
\* entry has no max_articles.
C1_PerCategoryCap ==
    Ranked => \A c \in DOMAIN target_categories :
                  Cardinality(OfCategory(articles, c)) <= ConfiguredCap(c)

\* the default cap of 1 applied to "ai", which had more candidates than that
C1_Witness ==
    /\ Ranked
    /\ "max_articles" \notin DOMAIN target_categories["ai"]
    /\ config_settings # NoSettings
    /\ Cardinality(OfCategory(remove_similar_articles(input), "ai")) > 1
    /\ Cardinality(OfCategory(articles, "ai")) = 1

Ids(list) == { list[n].id : n \in 1..Len(list) }

\* C2: of the n items of a catalog category that survive the fuzzy title
\* pass, exactly min(cap, n) are returned, and no returned one has a lower
\* score than a dropped one.
C2_TopOfCategory ==
    Ranked =>
        LET survivors == remove_similar_articles(input)
        IN  \A c \in DOMAIN target_categories :
                LET cand == { survivors[n] : n \in OfCategory(survivors, c) }
                    kept == { articles[n] : n \in OfCategory(articles, c) }
                IN  /\ kept \subseteq cand
                    /\ Cardinality(kept) = Min(ConfiguredCap(c), Cardinality(cand))
                    /\ \A x \in kept, y \in cand \ kept : x.score >= y.score

\* the documented scenario has been ranked: of 25 items, 10 are "ai" with
\* pairwise distinct scores and a cap of 5, and the 5 returned "ai" items are
\* the 5 of highest score
C2_Witness ==
    /\ Ranked
    /\ Len(input) = 25
    /\ Cardinality(OfCategory(input, "ai")) = 10
    /\ Cardinality({ input[n].score : n \in OfCategory(input, "ai") }) = 10
    /\ ConfiguredCap("ai") = 5
    /\ Cardinality(OfCategory(articles, "ai")) = 5
    /\ \A n \in OfCategory(articles, "ai") :
           Cardinality({ k \in OfCategory(input, "ai") : input[k].score > articles[n].score }) < 5

\* C3: the returned list is in non-increasing score order, and returned
\* items of equal score keep their relative order of the input list.
C3_SortedStable ==
    Ranked => \A p \in 1..Len(articles), q \in 1..Len(articles) :
                  p < q => /\ articles[p].score >= articles[q].score
                           /\ articles[p].score = articles[q].score
                                  => articles[p].id < articles[q].id

\* two returned items of equal score behind a third returned item that came
\* later in the input
C3_Witness ==
    /\ Ranked
    /\ Len(articles) = 3
    /\ articles[1].id = 3
    /\ articles[2].id = 1 /\ articles[3].id = 2
    /\ articles[2].score = articles[3].score

\* _filter_and_rank has returned
RankReturned == Ranked \/ (op = "process" /\ ((pass = 4 /\ pc = "done") \/ pass = 5))

\* C30: every item _filter_and_rank returns has a category that is a key of
\* the catalog; an item of any other category is never returned, whatever
\* its score and however few items were selected.
C30_OnlyCatalogCategories ==
    RankReturned => \A n \in 1..Len(articles) : articles[n].category \in DOMAIN target_categories

\* the item of strictly highest score has a category outside the catalog and
\* was dropped, while a single item was returned under caps that left room
C30_Witness ==
    /\ Ranked
    /\ Len(input) = 3 /\ Len(articles) = 1
    /\ \A c \in DOMAIN target_categories : ConfiguredCap(c) > Cardinality(OfCategory(articles, c))
    /\ \E n \in 1..Len(input) :
          /\ input[n].category \notin DOMAIN target_categories
          /\ \A k \in 1..Len(input) : k # n => input[k].score < input[n].score
          /\ input[n].id \notin Ids(articles)

-----------------------------------------------------------------------------
(* NewsArticle.is_similar_to                                               *)

UpperChar(c) ==
    IF \E n \in 1..26 : LowerChars[n] = c
    THEN UpperChars[CHOOSE n \in 1..26 : LowerChars[n] = c]
    ELSE c

\* str.upper()
Upper(s) == [n \in 1..Len(s) |-> UpperChar(s[n])]

\* str.strip()
Strip(s) ==
    LET solid == { n \in 1..Len(s) : ~IsSpace(s[n]) }
    IN  IF solid = {} THEN <<>>
        ELSE SubSeq(s, CHOOSE a \in solid : \A n \in solid : a <= n,
                       CHOOSE b \in solid : \A n \in solid : b >= n)

YES == <<"Y","E","S">>

\* what one call_claude can do: return a text, or raise
Raised == [raised |-> TRUE]
Returned(text) == [raised |-> FALSE, text |-> text]

BackendReplies ==
    { Raised, Returned(YES), Returned(<<" ","y","e","s">>), Returned(<<"N","O">>), Returned(<<"Y","e","s",","," ","s","a","m","e">>) }

\* is_similar_to(other, processor) when the backend, if asked, answers reply
is_similar_to(self, other_article, available, reply) ==
    IF self.url = other_article.url THEN TRUE
    ELSE IF available /\ ~reply.raised THEN Upper(Strip(reply.text)) = YES
    ELSE is_similar_keyword_based(self, other_article)

-----------------------------------------------------------------------------
(* ArticleProcessor._handle_similar_articles, one comparison per step      *)

\* the variant that appends the article whatever the flag
after_inner_loop_always_append(unique_articles, article, similar) ==
    Append(unique_articles, article)

\* "if not is_similar: unique_articles.append(article)"
after_inner_loop(unique_articles, article, similar) ==
    IF similar THEN unique_articles ELSE Append(unique_articles, article)

\* the state in which the outer loop takes up input[n] with the list unique:
\* the first comparison of input[n], or the return when the input is used up
EnterArticle(n, unique) ==
    /\ articles' = unique
    /\ IF n > Len(input)
       THEN pc' = "done" /\ i' = 0 /\ j' = 0
       ELSE pc' = "compare" /\ i' = n /\ j' = 1

\* _handle_similar_articles is running: called on its own, or as the second
\* step of process_articles
Handling == op = "handle" \/ (op = "process" /\ pass = 2)

HandleStart ==
    /\ Handling /\ pc = "start"
    /\ judged' = {}
    /\ is_similar' = FALSE
    /\ IF input = <<>>
       THEN articles' = <<>> /\ pc' = "done" /\ i' = 0 /\ j' = 0
       ELSE EnterArticle(2, after_inner_loop(<<>>, input[1], FALSE))
    /\ UNCHANGED <<op, pass, input, ai_available, candidate, seen_hashes, result,
                   target_categories, config_settings,
                   pipeline_vars, service_vars, discovery_vars>>

\* one comparison of the inner loop when the call of the backend, if one is
\* made, ended as reply says
HandleCompareWith(reply) ==
    /\ LET article == input[i]
           verdict == is_similar_to(article, articles[j], ai_available, reply)
       IN  /\ judged' = judged \cup { <<article.id, articles[j].id, verdict>> }
           /\ is_similar' = verdict
           /\ IF ~verdict /\ j < Len(articles)
              THEN j' = j + 1 /\ UNCHANGED <<pc, i, articles>>
              ELSE EnterArticle(i + 1, after_inner_loop(articles, article, verdict))
    /\ UNCHANGED <<op, pass, input, ai_available, candidate, seen_hashes, result,
                   target_categories, config_settings,
                   pipeline_vars, discovery_vars>>

HandleCompare ==
    /\ Handling /\ pc = "compare"
    /\ \E reply \in BackendReplies : HandleCompareWith(reply)
    /\ UNCHANGED service_vars

-----------------------------------------------------------------------------
(* Specification SpecDedup: one of the two deduplication passes applied to *)
(* a list, and then applied again to the list it returned                  *)

T_MicrosoftPatch == <<"M","i","c","r","o","s","o","f","t"," ","p","a","t","c","h">>
T_GoogleUpdate == <<"G","o","o","g","l","e"," ","u","p","d","a","t","e">>
T_MicrosoftGoogleUpdate == <<"M","i","c","r","o","s","o","f","t"," ","G","o","o","g","l","e"," ","u","p","d","a","t","e">>

HandleTitles == { T_MicrosoftPatch, T_GoogleUpdate, T_MicrosoftGoogleUpdate }

TokenLetters == <<"a","b","c","d","e","f","g","h","i","j">>

\* the title made of the first k one-letter words
Prefix(k) == JoinWords([n \in 1..k |-> << TokenLetters[n] >>])

\* titles for the fuzzy pass: 4 to MaxTokens words, two respellings of the
\* five-word title, and three titles without any word
FuzzyTitles ==
    { Prefix(k) : k \in 4..MaxTokens }
    \cup { <<"A">> \o Tail(Prefix(5)), <<" ">> \o Prefix(4) \o <<" ", " ", "e">> }
    \cup { <<>>, <<" ">>, <<" ", " ">> }

\* lists whose titles are drawn from titles and whose urls are one of urls(m)
DedupInputs(titles, urls(_)) ==
    UNION { { [n \in 1..m |-> MkArticle(n, ts[n], us[n], <<>>, "uncategorized", 0, 0)] :
                ts \in [1..m -> titles], us \in urls(m) } : m \in 0..MaxArticles }

\* every item one of two urls
SharedUrls(m) == [1..m -> {U1, U2}]

\* every item a url of its own
OwnUrls(m) == { [n \in 1..m |-> <<"u">> \o Numeral(n)] }

InitDedup ==
    /\ NoPipeline /\ NoService /\ NoDiscovery
    /\ pc = "start" /\ pass = 1
    /\ \/ op = "handle" /\ input \in DedupInputs(HandleTitles, SharedUrls)
                        /\ ai_available \in BOOLEAN
       \/ op = "remove" /\ input \in DedupInputs(FuzzyTitles, OwnUrls)
                        /\ ai_available = FALSE
    /\ articles = <<>>
    /\ result = "none"
    /\ NoLoop /\ NoFetcher /\ NoConfig

RemoveSimilar ==
    /\ op = "remove" /\ pc = "start"
    /\ articles' = remove_similar_articles(input)
    /\ pc' = "done"
    /\ UNCHANGED <<op, pass, input, i, j, is_similar, judged, ai_available, candidate,
                   seen_hashes, result, target_categories, config_settings,
                   pipeline_vars, service_vars, discovery_vars>>

\* the same pass is called on the list it has just returned
Reapply ==
    /\ op \in {"handle", "remove"} /\ pc = "done" /\ pass = 1
    /\ input' = articles
    /\ articles' = <<>>
    /\ pass' = 2
    /\ pc' = "start"
    /\ judged' = {}
    /\ is_similar' = FALSE
    /\ UNCHANGED <<op, i, j, ai_available, candidate, seen_hashes, result,
                   target_categories, config_settings,
                   pipeline_vars, service_vars, discovery_vars>>

NextDedup == HandleStart \/ HandleCompare \/ RemoveSimilar \/ Reapply

SpecDedup == InitDedup /\ [][NextDedup]_vars

\* C4: with the backend unavailable, each deduplication pass applied to the
\* list it returned returns that list unchanged.
C4_DedupIdempotent ==
    (op \in {"handle", "remove"} /\ pass = 2 /\ pc = "done" /\ ~ai_available)
        => articles = input

\* a second application of the same-topic pass to a list from which the
\* first application had dropped the middle item
C4_Witness ==
    /\ op = "handle" /\ pass = 2 /\ pc = "done" /\ ~ai_available
    /\ Len(input) = 2
    /\ input[1].id = 1 /\ input[2].id = 3
    /\ input[1].url # input[2].url

\* a second application of the fuzzy title pass to such a list
C4_WitnessRemove ==
    /\ op = "remove" /\ pass = 2 /\ pc = "done"
    /\ Len(input) = 2
    /\ input[1].id = 1 /\ input[2].id = 3

Handled == op = "handle" /\ pass = 1 /\ pc = "done"

KeptIds == Ids(articles)

\* C5: the returned list is an order-preserving subsequence of the input
\* that starts with the first input item; no returned item was judged
\* same-topic with an item returned before it, and every dropped item was
\* judged same-topic with a returned item that precedes it in the input.
\* Without the backend the verdicts are those of the URL test and the
\* keyword judgment.
C5_HandleKeepsEarlier ==
    Handled =>
        /\ \A p \in 1..Len(articles) : articles[p] = input[articles[p].id]
        /\ \A p \in 1..Len(articles), q \in 1..Len(articles) :
               p < q => /\ articles[p].id < articles[q].id
                        /\ <<articles[q].id, articles[p].id, FALSE>> \in judged
                        /\ <<articles[q].id, articles[p].id, TRUE>> \notin judged
        /\ input # <<>> => (articles # <<>> /\ articles[1] = input[1])
        /\ \A n \in 1..Len(input) :
               n \notin KeptIds =>
                   \E k \in KeptIds : k < n /\ <<n, k, TRUE>> \in judged
        /\ ~ai_available =>
               \A v \in judged :
                   v[3] = ( \/ input[v[1]].url = input[v[2]].url
                            \/ is_similar_keyword_based(input[v[1]], input[v[2]]) )

\* the first item kept, the second and third dropped, the third for its
\* title alone
C5_Witness ==
    /\ Handled /\ ~ai_available
    /\ Len(input) = 3 /\ KeptIds = {1}
    /\ input[3].url # input[1].url
    /\ input[3].title # input[1].title

Removed == op = "remove" /\ pass = 1 /\ pc = "done"

\* the Jaccard similarity of the lower-cased whitespace tokens of two titles
\* is strictly greater than 0.8
JaccardAbove80(t1, t2) ==
    LET w1 == Tokens(Lower(t1))
        w2 == Tokens(Lower(t2))
    IN  5 * Cardinality(w1 \cap w2) > 4 * Cardinality(w1 \cup w2)

JaccardIs80(t1, t2) ==
    LET w1 == Tokens(Lower(t1))
        w2 == Tokens(Lower(t2))
    IN  w1 \cup w2 # {} /\ 5 * Cardinality(w1 \cap w2) = 4 * Cardinality(w1 \cup w2)

\* the returned list is the input list without the items n for which Dup(n, k)
\* holds of some returned item k that precedes n
DropsExactly(Dup(_, _)) ==
    /\ \A p \in 1..Len(articles) : articles[p] = input[articles[p].id]
    /\ \A p \in 1..Len(articles), q \in 1..Len(articles) :
           p < q => articles[p].id < articles[q].id
    /\ \A n \in 1..Len(input) :
           n \notin KeptIds <=> \E k \in KeptIds : k < n /\ Dup(n, k)

\* the claimed test, two titles without any word having no similarity at all
ClaimedDuplicate(n, k) == JaccardAbove80(input[n].title, input[k].title)

\* the claimed test, two titles without any word having the similarity 1
ClaimedDuplicateEmptyAlike(n, k) ==
    \/ JaccardAbove80(input[n].title, input[k].title)
    \/ Tokens(Lower(input[n].title)) \cup Tokens(Lower(input[k].title)) = {}

\* C7 as stated: a candidate is dropped exactly when the Jaccard similarity
\* of its title and the title of a previously kept item is above 0.8, and
\* every two kept titles have a similarity of at most 0.8; whichever value is
\* given to the similarity of two titles without any word.
C7_Original ==
    Removed =>
        \/ /\ DropsExactly(ClaimedDuplicate)
           /\ \A k \in KeptIds, n \in KeptIds : k # n => ~ClaimedDuplicate(n, k)
        \/ /\ DropsExactly(ClaimedDuplicateEmptyAlike)
           /\ \A k \in KeptIds, n \in KeptIds : k # n => ~ClaimedDuplicateEmptyAlike(n, k)

AmendedDuplicate(n, k) ==
    \/ Lower(input[n].title) = Lower(input[k].title)
    \/ /\ Tokens(Lower(input[n].title)) # {}
       /\ Tokens(Lower(input[k].title)) # {}
       /\ JaccardAbove80(input[n].title, input[k].title)

\* C7 amended: a candidate is dropped exactly when, for some previously kept
\* item, the two lower-cased titles are equal or both titles have a token and
\* the Jaccard similarity of their token sets is above 0.8; a similarity of
\* exactly 0.8 keeps the candidate, and no two kept titles are duplicates in
\* this sense.
C7_FuzzyThreshold ==
    Removed =>
        /\ DropsExactly(AmendedDuplicate)
        /\ \A k \in KeptIds, n \in KeptIds :
               k # n => ~AmendedDuplicate(n, k)

\* a candidate at exactly 0.8 of the first title has been kept and a
\* candidate above 0.8 of it dropped
C7_Witness ==
    /\ Removed
    /\ Len(input) = 3 /\ KeptIds = {1, 2}
    /\ JaccardIs80(input[2].title, input[1].title)
    /\ JaccardAbove80(input[3].title, input[1].title)
    /\ Lower(input[3].title) # Lower(input[1].title)

-----------------------------------------------------------------------------
(* fetch_news.py: NewsArticle.calculate_score(source_weight) and the       *)
(* ingestion loop of NewsFetcher._fetch_single_feed, one comparison per    *)
(* step.  input is the sequence of feed entries still within the lookback  *)
(* window, each with the weight and the category of its feed.              *)

important_keywords ==
    [c \in {"cybersecurity", "webdev"} |->
        IF c = "cybersecurity"
        THEN << <<"v","u","l","n","e","r","a","b","i","l","i","t","y">>, <<"b","r","e","a","c","h">>, <<"a","t","t","a","c","k">>, <<"s","e","c","u","r","i","t","y">>, <<"e","x","p","l","o","i","t">>,
                <<"r","a","n","s","o","m","w","a","r","e">>, <<"m","a","l","w","a","r","e">>, <<"p","a","t","c","h">>, <<"z","e","r","o","-","d","a","y">>, <<"c","v","e">> >>
        ELSE << <<"j","a","v","a","s","c","r","i","p","t">>, <<"c","s","s">>, <<"h","t","m","l">>, <<"r","e","a","c","t">>, <<"v","u","e">>, <<"f","r","a","m","e","w","o","r","k">>,
                <<"p","e","r","f","o","r","m","a","n","c","e">>, <<"a","c","c","e","s","s","i","b","i","l","i","t","y">>, <<"a","p","i">>, <<"b","r","o","w","s","e","r">> >>]

\* fetch_news.NewsArticle.calculate_score
fetch_calculate_score(self, source_weight) ==
    LET keywords == Get(important_keywords, self.category, <<>>)
        relevance == Min(10, 5 + KeywordHits(keywords, Lower(self.title)))
    IN  300 * freshness_score(self.age_hours) + 1440 * source_weight + 1920 * relevance

\* fetch_news.NewsArticle.is_similar_to
fetch_is_similar_to(self, other_article, has_key, reply) ==
    is_similar_to(self, other_article, has_key, reply)

\* NewsArticle._generate_hash: md5 of title + url, taken as collision-free
content_hash(a) == a.title \o a.url

\* list.remove(x): the list without its first occurrence of x
ListRemove(list, x) ==
    LET k == CHOOSE n \in 1..Len(list) : list[n] = x /\ \A m \in 1..(n - 1) : list[m] # x
    IN  SubSeq(list, 1, k - 1) \o SubSeq(list, k + 1, Len(list))

\* the entry that entry n of the feed list becomes: NewsArticle(...)
EntryArticle(n) ==
    MkArticle(n, input[n].title, input[n].url, <<>>, input[n].category, input[n].age_hours, 0)

\* the loop over feed.entries takes up entry n, or returns
NextEntry(n) ==
    IF n > Len(input) THEN pc' = "done" /\ i' = 0 ELSE pc' = "entry" /\ i' = n

\* "if not is_similar": score, append, remember the hash
AppendNew(list, hashes, a, weight) ==
    LET scored == [a EXCEPT !.score = fetch_calculate_score(a, weight)]
    IN  /\ candidate' = scored
        /\ articles' = Append(list, scored)
        /\ seen_hashes' = hashes \cup { content_hash(a) }

\* an entry is read: skipped on a known hash, appended when nothing is
\* accepted yet, compared with the accepted articles otherwise
FetchEntry ==
    /\ op = "fetch" /\ pc = "entry"
    /\ LET a == EntryArticle(i)
       IN  /\ judged' = {}
           /\ is_similar' = FALSE
           /\ IF content_hash(a) \in seen_hashes
              THEN /\ NextEntry(i + 1) /\ j' = 0 /\ candidate' = a
                   /\ UNCHANGED <<articles, seen_hashes>>
              ELSE IF articles = <<>>
              THEN NextEntry(i + 1) /\ j' = 0 /\ AppendNew(articles, seen_hashes, a, input[i].weight)
              ELSE /\ pc' = "compare" /\ j' = 1 /\ candidate' = a
                   /\ UNCHANGED <<i, articles, seen_hashes>>
    /\ UNCHANGED <<op, pass, input, ai_available, result, target_categories, config_settings,
                   pipeline_vars, service_vars, discovery_vars>>

\* one pass through the body of "for existing_article in self.articles";
\* the list iterator is at position j and moves to j + 1 whatever the body
\* did to the list
FetchCompare ==
    /\ op = "fetch" /\ pc = "compare"
    /\ \E reply \in BackendReplies :
          LET existing_article == articles[j]
              verdict == fetch_is_similar_to(candidate, existing_article, ai_available, reply)
              scored == IF verdict
                        THEN [candidate EXCEPT !.score = fetch_calculate_score(candidate, input[i].weight)]
                        ELSE candidate
              replaces == verdict /\ scored.score > existing_article.score
              skips == verdict /\ ~replaces
              remaining == IF replaces THEN ListRemove(articles, existing_article) ELSE articles
              hashes == IF replaces THEN seen_hashes \ { content_hash(existing_article) }
                        ELSE seen_hashes
              similar == is_similar \/ verdict
          IN  /\ judged' = judged \cup { <<candidate.id, existing_article.id, verdict>> }
              /\ is_similar' = similar
              /\ IF ~skips /\ j + 1 <= Len(remaining)
                 THEN /\ j' = j + 1
                      /\ candidate' = scored
                      /\ articles' = remaining
                      /\ seen_hashes' = hashes
                      /\ UNCHANGED <<pc, i>>
                 ELSE /\ j' = 0
                      /\ NextEntry(i + 1)
                      /\ IF similar
                         THEN candidate' = scored /\ articles' = remaining /\ seen_hashes' = hashes
                         ELSE AppendNew(remaining, hashes, scored, input[i].weight)
    /\ UNCHANGED <<op, pass, input, ai_available, result, target_categories, config_settings,
                   pipeline_vars, service_vars, discovery_vars>>

-----------------------------------------------------------------------------
(* Specification SpecFetch: NewsFetcher ingests a sequence of entries      *)

FetchWeights == {5, 10}

FetchEntries ==
    { [title |-> t, url |-> u, weight |-> w, category |-> "cybersecurity", age_hours |-> 1] :
        t \in HandleTitles, u \in {U1, U2}, w \in FetchWeights }

InitFetch ==
    /\ NoPipeline /\ NoService /\ NoDiscovery
    /\ op = "fetch" /\ pc = "entry" /\ pass = 1
    /\ input \in UNION { [1..m -> FetchEntries] : m \in 1..MaxArticles }
    /\ i = 1 /\ j = 0 /\ is_similar = FALSE /\ judged = {} /\ candidate = NoArticle
    /\ articles = <<>>
    /\ ai_available \in BOOLEAN
    /\ result = "none"
    /\ NoFetcher /\ NoConfig

NextFetch == FetchEntry \/ FetchCompare

SpecFetch == InitFetch /\ [][NextFetch]_vars

\* the loop has finished with its candidate
CandidateSettled == op = "fetch" /\ pc \in {"entry", "done"} /\ candidate # NoArticle

Accepted(id) == id \in Ids(articles)

\* the score of the accepted or evicted item made from entry n
ScoreOfEntry(n) == fetch_calculate_score(EntryArticle(n), input[n].weight)

\* C6: once a candidate has been judged equivalent to an accepted item,
\* exactly one of the two is in the accepted list when the candidate is
\* settled: the candidate if its score is strictly higher, the accepted item
\* otherwise.
C6_HigherScoreSurvives ==
    CandidateSettled =>
        \A v \in judged :
            v[3] = TRUE =>
                IF candidate.score > ScoreOfEntry(v[2])
                THEN Accepted(candidate.id) /\ ~Accepted(v[2])
                ELSE Accepted(v[2]) /\ ~Accepted(candidate.id)

-----------------------------------------------------------------------------
(* core/feeds.py: FeedManager._fetch_single_feed, one feed entry per step. *)
(* input is the sequence of entries of the feeds in reading order, i the   *)
(* number of entries read; an entry's age stands for its parsed date.      *)

\* the variant hashing the description as well
generate_hash_with_description(self) == self.title \o self.url \o self.description

\* NewsArticle._generate_hash: md5 of f"{title}{url}", held as the hashed text
generate_hash(self) == self.title \o self.url

\* days_lookback = 2: the cutoff is 48 hours before the clock reading
days_lookback == 2

\* "published < cutoff_date"
before_cutoff(age_hours) == age_hours > 24 * days_lookback

\* NewsArticle(title, url, ..., category='uncategorized', ...)
FeedArticle(n) == [input[n] EXCEPT !.category = "uncategorized"]

FeedEntry ==
    /\ op = "feed" /\ pc = "loop" /\ i < Len(input)
    /\ i' = i + 1
    /\ LET article == FeedArticle(i + 1)
       IN  IF before_cutoff(article.age_hours)
           THEN UNCHANGED <<articles, seen_hashes>>
           ELSE IF generate_hash(article) \in seen_hashes
           THEN UNCHANGED <<articles, seen_hashes>>
           ELSE /\ articles' = Append(articles, article)
                /\ seen_hashes' = seen_hashes \cup {generate_hash(article)}
    /\ UNCHANGED <<pc, op, pass, input, j, is_similar, judged, ai_available, candidate,
                   result, target_categories, config_settings,
                   pipeline_vars, service_vars, discovery_vars>>

\* fetch_all_feeds returns self.articles
FeedReturn ==
    /\ op = "feed" /\ pc = "loop" /\ i = Len(input)
    /\ pc' = "done"
    /\ UNCHANGED <<op, pass, input, articles, i, j, is_similar, judged, ai_available, candidate,
                   seen_hashes, result, target_categories, config_settings,
                   pipeline_vars, service_vars, discovery_vars>>

-----------------------------------------------------------------------------
(* Specification SpecFeed: FeedManager ingests a sequence of entries       *)

FeedTitles == { <<"N">>, <<"N", "u">> }
FeedUrls == { <<"u", "1">>, <<"1">> }
FeedDescriptions == { <<"N", "e", "w", "s">>, <<"n", "e", "w", "s">> }
FeedAges == {1, 49}

InitFeed ==
    /\ NoPipeline /\ NoService /\ NoDiscovery
    /\ op = "feed" /\ pc = "loop" /\ pass = 1
    /\ \E m \in 1..MaxArticles :
       \E ts \in [1..m -> FeedTitles], us \in [1..m -> FeedUrls],
          ds \in [1..m -> FeedDescriptions], as \in [1..m -> FeedAges] :
          input = [n \in 1..m |-> MkArticle(n, ts[n], us[n], ds[n], "feed", as[n], 0)]
    /\ articles = <<>>
    /\ seen_hashes = {}
    /\ i = 0 /\ j = 0 /\ is_similar = FALSE /\ judged = {} /\ candidate = NoArticle
    /\ result = 0
    /\ ai_available = FALSE
    /\ NoConfig

NextFeed == FeedEntry \/ FeedReturn

SpecFeed == InitFeed /\ [][NextFeed]_vars

FeedDone == op = "feed" /\ pc = "done"

\* the entries read so far that carry the title and the url of entry n and
\* are not older than the cutoff
SameTitleUrl(n) ==
    { k \in 1..i : /\ input[k].title = input[n].title
                   /\ input[k].url = input[n].url
                   /\ ~before_cutoff(input[k].age_hours) }

\* C12: two raw items with identical title and url, whatever their
\* descriptions, have the same content_hash, and ingestion accepts at most
\* one of them: the first is appended, every later one is skipped by the hash
\* check, and no similarity judgment is ever made.
C12_HashCollapses ==
    op = "feed" =>
        /\ judged = {}
        /\ \A n \in 1..i :
              /\ \A k \in SameTitleUrl(n) : generate_hash(FeedArticle(k)) = generate_hash(FeedArticle(n))
              /\ Cardinality(Ids(articles) \cap SameTitleUrl(n)) <= 1
              /\ \A k \in SameTitleUrl(n) :
                    k \in Ids(articles) => \A e \in SameTitleUrl(n) : e >= k
        /\ \A a \in 1..Len(articles), b \in 1..Len(articles) :
              a # b => generate_hash(articles[a]) # generate_hash(articles[b])

\* two entries within the lookback window with the same title and url and
\* different descriptions have been read, and only the first was accepted
C12_Witness ==
    /\ FeedDone
    /\ \E k \in 1..i, n \in 1..i :
          /\ k < n
          /\ n \in SameTitleUrl(k)
          /\ k \in SameTitleUrl(k)
          /\ input[k].description # input[n].description
          /\ k \in Ids(articles) /\ n \notin Ids(articles)

-----------------------------------------------------------------------------
(* AIServiceManager._parse_categorization_result and batch_categorize      *)
(* A category name is a model string; KeyText gives its characters and     *)
(* KeyOrder the order in which the catalog dict lists its keys.            *)

KeyOrder == <<"ai", "cybersecurity", "webdev">>

KeyText ==
    [ai |-> <<"a","i">>,
     cybersecurity |-> <<"c","y","b","e","r","s","e","c","u","r","i","t","y">>,
     webdev |-> <<"w","e","b","d","e","v">>]

\* list(valid_categories.keys())
Keys(categories) == SelectSeq(KeyOrder, LAMBDA c : c \in DOMAIN categories)

NL == "\n"

RECURSIVE SplitFrom(_, _)
\* the pieces of s from position start on, one per newline and one more
SplitFrom(s, start) ==
    LET newlines == { n \in start..Len(s) : s[n] = NL }
    IN  IF newlines = {} THEN << SubSeq(s, start, Len(s)) >>
        ELSE LET cut == CHOOSE n \in newlines : \A m \in newlines : n <= m
             IN  << SubSeq(s, start, cut - 1) >> \o SplitFrom(s, cut + 1)

\* str.split('\n')
SplitLines(s) == SplitFrom(s, 1)

IsDigit(c) == \E n \in 1..10 : DigitChars[n] = c

\* re.sub(r'^\d+\.\s*', '', line)
RemoveNumbering(line) ==
    LET digits == { n \in 1..Len(line) : \A k \in 1..n : IsDigit(line[k]) }
        d == Cardinality(digits)
    IN  IF d >= 1 /\ d < Len(line) /\ line[d + 1] = "."
        THEN LET rest == SubSeq(line, d + 2, Len(line))
                 blank == { n \in 1..Len(rest) : \A k \in 1..n : IsSpace(rest[k]) }
             IN  SubSeq(rest, Cardinality(blank) + 1, Len(rest))
        ELSE line

\* the partial-name loop: the first key that contains the text or is contained in it
PartialMatches(category, valid_categories) ==
    SelectSeq(Keys(valid_categories),
              LAMBDA c : Contains(category, KeyText[c]) \/ Contains(KeyText[c], category))

\* the category appended for one non-empty line
ParseLine(line, valid_categories) ==
    LET category == Lower(Strip(RemoveNumbering(line)))
        exact == SelectSeq(Keys(valid_categories), LAMBDA c : KeyText[c] = category)
        partial == PartialMatches(category, valid_categories)
    IN  IF exact # <<>> THEN exact[1]
        ELSE IF partial # <<>> THEN partial[1]
        ELSE Keys(valid_categories)[1]

RECURSIVE ParseLines(_, _)
ParseLines(lines, valid_categories) ==
    IF lines = <<>> THEN <<>>
    ELSE LET line == Strip(Head(lines))
         IN  (IF line = <<>> THEN <<>> ELSE << ParseLine(line, valid_categories) >>)
             \o ParseLines(Tail(lines), valid_categories)

parse_categorization_result(text, valid_categories) ==
    ParseLines(SplitLines(Strip(text)), valid_categories)

\* batch_categorize when call_claude answers reply: the parsed labels, or []
\* without a key or when the call raised
batch_categorize(available, reply, categories) ==
    IF ~available \/ reply.raised THEN <<>>
    ELSE parse_categorization_result(reply.text, categories)

-----------------------------------------------------------------------------
(* ArticleProcessor._categorize_articles, one batch per step               *)

batch_size == 20

\* category_scores[category]
category_score(article, categories, category) ==
    KeywordHits(categories[category].keywords,
                Lower(article.title) \o <<" ">> \o Lower(article.description))

\* the variant that returns 'uncategorized' when no keyword matches
fallback_single_categorization_uncategorized(article, categories, settings) ==
    LET keys == Keys(categories)
        best == CHOOSE n \in 1..Len(keys) :
                   \A k \in 1..Len(keys) :
                      category_score(article, categories, keys[k]) <= category_score(article, categories, keys[n])
    IN  IF category_score(article, categories, keys[best]) = 0 THEN "uncategorized" ELSE keys[best]

\* max(category_scores, key=category_scores.get) is the first key of the
\* highest score
fallback_single_categorization(article, categories, settings) ==
    LET keys == Keys(categories)
        best == CHOOSE n \in 1..Len(keys) :
                   /\ \A k \in 1..Len(keys) :
                         category_score(article, categories, keys[k]) <= category_score(article, categories, keys[n])
                   /\ \A k \in 1..(n - 1) :
                         category_score(article, categories, keys[k]) < category_score(article, categories, keys[n])
    IN  IF category_score(article, categories, keys[best]) = 0
        THEN Get(settings, "default_category", "webdev")
        ELSE keys[best]

fallback_categorization(list, categories, settings) ==
    [n \in 1..Len(list) |->
        [list[n] EXCEPT !.category = fallback_single_categorization(list[n], categories, settings)]]

\* the batch articles[start + 1 .. start + batch_size]
BatchOf(list, start) == (start + 1)..Min(start + batch_size, Len(list))

\* the variant that gives up on the backend for the whole list once a batch
\* comes back without labels
assign_batch_all_or_nothing(list, start, labels, categories, settings) ==
    IF labels = <<>> THEN fallback_categorization(list, categories, settings)
    ELSE [n \in 1..Len(list) |->
            IF n \in BatchOf(list, start) /\ n - start <= Len(labels)
            THEN [list[n] EXCEPT !.category = labels[n - start]]
            ELSE IF n \in BatchOf(list, start)
            THEN [list[n] EXCEPT !.category = fallback_single_categorization(list[n], categories, settings)]
            ELSE list[n]]

\* "for j, article in enumerate(batch)": the returned label at position j,
\* the keyword fallback beyond the returned labels
assign_batch(list, start, labels, categories, settings) ==
    [n \in 1..Len(list) |->
        IF n \in BatchOf(list, start)
        THEN IF n - start <= Len(labels)
             THEN [list[n] EXCEPT !.category = labels[n - start]]
             ELSE [list[n] EXCEPT !.category = fallback_single_categorization(list[n], categories, settings)]
        ELSE list[n]]

-----------------------------------------------------------------------------
(* What the backend can answer to the categorization prompt of a batch of  *)
(* n articles: a failure, an empty text, numbered labels (one per article, *)
(* one too few, one too many), or labels after a line of preamble          *)

LabelTexts == << <<"a","i">>, <<"W","e","b","D","e","v">>, <<"s","p","o","r","t","s">>, <<"w","e","b">> >>

Preamble == <<"H","e","r","e",":">>

RECURSIVE NumberedLines(_, _, _)
\* "k. label" for k = from..cnt, one per line
NumberedLines(from, cnt, p) ==
    IF from > cnt THEN <<>>
    ELSE Numeral(from) \o <<".", " ">> \o LabelTexts[((from + p) % 4) + 1]
         \o (IF from < cnt THEN << NL >> ELSE <<>>)
         \o NumberedLines(from + 1, cnt, p)

BatchReplies(n) ==
    { Raised, Returned(<<>>) }
    \cup { Returned(NumberedLines(1, cnt, p)) : cnt \in {n - 1, n, n + 1} \ {0}, p \in 0..1 }
    \cup { Returned(Preamble \o << NL >> \o NumberedLines(1, n, 0)) }

\* _categorize_articles is running: called on its own, or as the first step
\* of process_articles (which returns at once on an empty list)
Categorizing == op = "categorize" \/ (op = "process" /\ pass = 1 /\ articles # <<>>)

\* _categorize_articles up to the first batch: without a key every article
\* gets the keyword fallback; with a key the batch loop starts
CategorizeStart ==
    /\ Categorizing /\ pc = "start"
    /\ IF ai_available /\ articles # <<>>
       THEN pc' = "batch" /\ UNCHANGED articles
       ELSE /\ pc' = "done"
            /\ articles' = IF ai_available THEN articles
                           ELSE fallback_categorization(articles, target_categories, config_settings)
    /\ UNCHANGED <<op, pass, input, i, j, is_similar, judged, ai_available, candidate,
                   seen_hashes, result, target_categories, config_settings,
                   pipeline_vars, service_vars, discovery_vars>>

\* one pass through the body of "for i in range(0, len(articles), batch_size)"
\* when the call of the backend ended as reply says
CategorizeBatchWith(reply) ==
    /\ LET categories == batch_categorize(ai_available, reply, target_categories)
       IN  /\ replies' = Append(replies, [reply |-> reply, categories |-> categories])
           /\ articles' = assign_batch(articles, i, categories, target_categories, config_settings)
    /\ IF i + batch_size < Len(articles)
       THEN i' = i + batch_size /\ UNCHANGED pc
       ELSE i' = 0 /\ pc' = "done"
    /\ UNCHANGED <<op, pass, input, j, is_similar, judged, ai_available, candidate,
                   seen_hashes, result, target_categories, config_settings,
                   summary, discovery_vars>>

CategorizeBatch ==
    /\ Categorizing /\ pc = "batch"
    /\ \E reply \in BatchReplies(Cardinality(BatchOf(articles, i))) : CategorizeBatchWith(reply)
    /\ UNCHANGED service_vars

-----------------------------------------------------------------------------
(* Specification SpecCategorize: one call _categorize_articles(articles)   *)

T_GptModel == <<"G","P","T"," ","m","o","d","e","l">>
T_Css == <<"c","s","s">>
T_News == <<"N","e","w","s">>
T_GptCss == <<"g","p","t"," ","c","s","s">>

CatTitles == <<T_GptModel, T_Css, T_News, T_GptCss>>

CatKeywords ==
    [ai |-> << <<"g","p","t">>, <<"m","o","d","e","l">> >>,
     cybersecurity |-> << W_patch >>,
     webdev |-> << <<"c","s","s">> >>]

CatCatalog(keys) == [c \in keys |-> [keywords |-> CatKeywords[c]]]

CatCatalogs == { CatCatalog({"ai", "webdev"}), CatCatalog({"cybersecurity", "webdev"}),
                 CatCatalog({"ai", "cybersecurity"}) }

CatSettings == { NoSettings, [default_category |-> "misc"], [default_category |-> "ai"] }

\* short lists, and lists of one full batch and a few items more
CatList(m, ts) ==
    [n \in 1..m |-> MkArticle(n, CatTitles[ts[n]], <<"u">> \o Numeral(n), <<>>, "uncategorized", 1, 0)]

CatPattern(m, r) == [n \in 1..m |-> ((n + r) % 4) + 1]

InitCategorize ==
    /\ NoService /\ NoDiscovery
    /\ op = "categorize" /\ pc = "start" /\ pass = 1
    /\ \/ \E m \in 0..MaxArticles : \E ts \in [1..m -> 1..4] : input = CatList(m, ts)
       \/ \E m \in 1..MaxArticles, r \in 0..1 : input = CatList(batch_size + m, CatPattern(batch_size + m, r))
    /\ articles = input
    /\ target_categories \in CatCatalogs
    /\ config_settings \in CatSettings
    /\ ai_available \in BOOLEAN
    /\ result = "none"
    /\ NoLoop /\ NoFetcher /\ NoPipeline

NextCategorize == CategorizeStart \/ CategorizeBatch

SpecCategorize == InitCategorize /\ [][NextCategorize]_vars

Categorized == op = "categorize" /\ pc = "done"

\* the catalog keys and the configured default category
AllowedCategories ==
    DOMAIN target_categories \cup { Get(config_settings, "default_category", "webdev") }

\* C14: after _categorize_articles, whatever the backend did (no key, a
\* failure, an empty text, too few or too many labels, unknown label text),
\* every input item is still there, in its place, with a category that is a
\* catalog key or the configured default category.
C14_CategoryAssigned ==
    Categorized =>
        /\ Len(articles) = Len(input)
        /\ \A n \in 1..Len(input) :
              /\ articles[n] = [input[n] EXCEPT !.category = articles[n].category]
              /\ articles[n].category \in AllowedCategories

\* with a key, a batch was answered with one label too many, an unknown
\* label among them, and every item has its category
C14_Witness ==
    /\ Categorized /\ ai_available /\ input # <<>>
    /\ \E b \in 1..Len(replies) :
          /\ ~replies[b].reply.raised
          /\ Len(replies[b].categories) = Len(input) + 1
    /\ \A n \in 1..Len(articles) : articles[n].category \in DOMAIN target_categories

\* the labels batch_categorize returned for batch b
LabelsOf(b) == replies[b].categories

\* batch b of the list
BatchItems(b) == BatchOf(input, (b - 1) * batch_size)

\* the keyword fallback of input item n
FallbackOf(n) == fallback_single_categorization(input[n], target_categories, config_settings)

\* C15: when the backend returned for a batch a number of labels different
\* from the number of its items, every item of the batch has the category of
\* the keyword fallback.
C15_CountMismatchFallsBack ==
    (Categorized /\ ai_available) =>
        \A b \in 1..Len(replies) :
            (~replies[b].reply.raised /\ Len(LabelsOf(b)) # Cardinality(BatchItems(b)))
                => \A n \in BatchItems(b) : articles[n].category = FallbackOf(n)

\* C16: a failure or unreadable answer for one batch (no labels: the call
\* raised, or no label could be read from the text) leaves every other
\* batch as the backend labelled it: each item of another batch has the label
\* returned for its position in that batch.
C16_FailureStaysInBatch ==
    (Categorized /\ ai_available) =>
        \A b \in 1..Len(replies), o \in 1..Len(replies) :
            (LabelsOf(b) = <<>> /\ o # b) =>
                \A n \in BatchItems(o) :
                    LET pos == n - (o - 1) * batch_size
                    IN  pos <= Len(LabelsOf(o)) => articles[n].category = LabelsOf(o)[pos]

\* two batches, one failed and the other answered with a label for each of
\* its items, not all of them what the keyword fallback gives
C16_Witness ==
    /\ Categorized /\ ai_available /\ Len(replies) = 2
    /\ \E b \in 1..2 :
          /\ LabelsOf(b) = <<>>
          /\ Len(LabelsOf(3 - b)) = Cardinality(BatchItems(3 - b))
          /\ \E n \in BatchItems(3 - b) : articles[n].category # FallbackOf(n)
          /\ \A n \in BatchItems(b) : articles[n].category = FallbackOf(n)

-----------------------------------------------------------------------------
(* ContentAnalyzer.clean_text and generate_summaries                       *)

RECURSIVE RemoveTags(_, _)
\* re.sub('<[^<]+?>', '', text): from pos on, a "<", one or more characters
\* other than "<" as few as possible, and a ">" are dropped
RemoveTags(s, pos) ==
    IF pos > Len(s) THEN <<>>
    ELSE LET closes == { q \in (pos + 2)..Len(s) :
                            s[q] = ">" /\ \A k \in (pos + 1)..(q - 1) : s[k] # "<" }
         IN  IF s[pos] = "<" /\ closes # {}
             THEN RemoveTags(s, (CHOOSE q \in closes : \A r \in closes : q <= r) + 1)
             ELSE << s[pos] >> \o RemoveTags(s, pos + 1)

RECURSIVE WordsFrom(_, _)
\* text.split() from pos on, in order
WordsFrom(s, pos) ==
    IF pos > Len(s) THEN <<>>
    ELSE IF IsSpace(s[pos]) THEN WordsFrom(s, pos + 1)
    ELSE << SubSeq(s, pos, WordEnd(s, pos)) >> \o WordsFrom(s, WordEnd(s, pos) + 1)

clean_text(text) ==
    IF text = <<>> THEN <<>>
    ELSE JoinWords(WordsFrom(RemoveTags(text, 1), 1))

Ellipsis == <<".", ".", ".">>

\* the variant without the trailing "..."
description_summary_plain(description) ==
    SubSeq(clean_text(description), 1, Min(200, Len(clean_text(description))))

\* clean_text(article.description)[:200] + "..."
description_summary(description) ==
    SubSeq(clean_text(description), 1, Min(200, Len(clean_text(description)))) \o Ellipsis

\* the summary _generate_batch_summaries gives the article at position n of
\* the list when batch_summarize returned summaries
batch_summary(list, n, summaries) ==
    IF n <= Len(summaries) /\ Strip(summaries[n]) # <<>>
    THEN Strip(summaries[n])
    ELSE description_summary(list[n].description)

-----------------------------------------------------------------------------
(* ArticleProcessor.process_articles followed by                           *)
(* ContentAnalyzer.generate_summaries.  pass is the step of the pipeline:  *)
(* 1 _categorize_articles, 2 _handle_similar_articles, 3 _calculate_scores, *)
(* 4 _filter_and_rank, 5 generate_summaries; articles is the list the step *)
(* works on and returns.                                                   *)

\* "if not articles: return []", and generate_summaries returns an empty
\* list as it is
ProcessEmpty ==
    /\ op = "process" /\ pass = 1 /\ pc = "start" /\ articles = <<>>
    /\ pass' = 5 /\ pc' = "done"
    /\ UNCHANGED <<op, input, articles, i, j, is_similar, judged, ai_available, candidate,
                   seen_hashes, result, target_categories, config_settings,
                   pipeline_vars, service_vars, discovery_vars>>

\* "articles = self._step(articles)": the list a step returned is handed to
\* the next step
ProcessNext ==
    /\ op = "process" /\ pc = "done" /\ pass \in 1..4
    /\ pass' = pass + 1
    /\ pc' = "start"
    /\ input' = articles
    /\ i' = 0 /\ j' = 0 /\ is_similar' = FALSE
    /\ UNCHANGED <<op, articles, judged, ai_available, candidate,
                   seen_hashes, result, target_categories, config_settings,
                   pipeline_vars, service_vars, discovery_vars>>

\* _calculate_scores: calculate_score(1.0, ...) on every article
CalculateScores ==
    /\ op = "process" /\ pass = 3 /\ pc = "start"
    /\ articles' = [n \in 1..Len(articles) |->
                       [articles[n] EXCEPT !.score =
                           calculate_score(articles[n], 10, target_categories, config_settings)]]
    /\ pc' = "done"
    /\ UNCHANGED <<op, pass, input, i, j, is_similar, judged, ai_available, candidate,
                   seen_hashes, result, target_categories, config_settings,
                   pipeline_vars, service_vars, discovery_vars>>

\* what batch_summarize can return for n articles: nothing (no answer, or a
\* failure), a summary for each, a blank one among them, or one too few
SummaryTexts == << <<"S", "u", "m", ".">>, <<" ">>, <<" ", "O", "k", " ">> >>

SummaryReplies(n) ==
    { <<>> } \cup { [k \in 1..m |-> SummaryTexts[((k + p) % 3) + 1]] : m \in {n - 1, n} \ {0}, p \in 0..1 }

\* the position in the list of the article with this id
Position(list, id) == CHOOSE n \in 1..Len(list) : list[n].id = id

GenerateSummaries ==
    /\ op = "process" /\ pass = 5 /\ pc = "start"
    /\ pc' = "done"
    /\ IF articles = <<>> THEN UNCHANGED summary
       ELSE IF ~ai_available
       THEN summary' = [id \in DOMAIN summary |->
                           IF id \in Ids(articles)
                           THEN description_summary(articles[Position(articles, id)].description)
                           ELSE summary[id]]
       ELSE \E summaries \in SummaryReplies(Len(articles)) :
               summary' = [id \in DOMAIN summary |->
                              IF id \in Ids(articles)
                              THEN batch_summary(articles, Position(articles, id), summaries)
                              ELSE summary[id]]
    /\ UNCHANGED <<op, pass, input, articles, i, j, is_similar, judged, ai_available, candidate,
                   seen_hashes, result, target_categories, config_settings,
                   replies, service_vars, discovery_vars>>

-----------------------------------------------------------------------------
(* Specification SpecProcess: process_articles and generate_summaries on a *)
(* list of fetched articles                                                *)

D_Markup == <<"<","b",">","c","s","s","<","/","b",">"," "," ","x">>

ProcessTitles == <<T_GptModel, T_GoogleUpdate, T_MicrosoftGoogleUpdate>>
ProcessDescriptions == << <<>>, D_Markup >>

ProcessList(m, ts, ds) ==
    [n \in 1..m |-> MkArticle(n, ProcessTitles[ts[n]], <<"u">> \o Numeral(n),
                              ProcessDescriptions[ds[n]], "uncategorized", 1, 0)]

ProcessConfigs ==
    { << CatCatalog({"ai", "webdev"}), NoSettings >>,
      << CatCatalog({"ai", "webdev"}), [default_category |-> "misc", default_max_articles |-> 1] >>,
      << CatCatalog({"ai", "cybersecurity"}), NoSettings >>,
      << CatCatalog({"cybersecurity", "webdev"}), [default_category |-> "cybersecurity"] >> }

\* without a key every list of up to MaxArticles articles; with a key the
\* lists of up to two articles without a description
InitProcess ==
    /\ NoService /\ NoDiscovery
    /\ op = "process" /\ pc = "start" /\ pass = 1
    /\ \/ /\ ai_available = FALSE
          /\ \E m \in 0..MaxArticles : \E ts \in [1..m -> 1..3], ds \in [1..m -> 1..2] :
                input = ProcessList(m, ts, ds)
          /\ \E cfg \in ProcessConfigs : target_categories = cfg[1] /\ config_settings = cfg[2]
       \/ /\ ai_available = TRUE
          /\ \E m \in 0..2 : \E ts \in [1..m -> 2..3] : input = ProcessList(m, ts, [n \in 1..m |-> 1])
          /\ target_categories = CatCatalog({"ai", "webdev"}) /\ config_settings = NoSettings
    /\ articles = input
    /\ summary = [id \in 1..Len(input) |-> <<>>]
    /\ replies = <<>>
    /\ result = "none"
    /\ NoLoop /\ NoFetcher

NextProcess ==
    \/ ProcessEmpty
    \/ CategorizeStart \/ CategorizeBatch
    \/ ProcessNext
    \/ HandleStart \/ HandleCompare
    \/ CalculateScores
    \/ FilterAndRank
    \/ GenerateSummaries

SpecProcess == InitProcess /\ [][NextProcess]_vars

Processed == op = "process" /\ pass = 5 /\ pc = "done"

\* C13: without a backend, every item that process_articles and
\* generate_summaries leave in the output has a category that is neither
\* empty nor 'uncategorized', and a summary that is not empty.
C13_FallbackOutputComplete ==
    (Processed /\ ~ai_available) =>
        \A n \in 1..Len(articles) :
            /\ articles[n].category \notin {"", "uncategorized"}
            /\ summary[articles[n].id] # <<>>

\* without a backend, an item with an empty description and no keyword of
\* any category is in the output, under the default category and with the
\* summary "..."
C13_Witness ==
    /\ Processed /\ ~ai_available
    /\ \E n \in 1..Len(articles) :
          /\ articles[n].description = <<>>
          /\ articles[n].category = Get(config_settings, "default_category", "webdev")
          /\ \A c \in DOMAIN target_categories : category_score(articles[n], target_categories, c) = 0
          /\ summary[articles[n].id] = Ellipsis

-----------------------------------------------------------------------------
(* core/ai_service.py: AIServiceManager.call_claude, batch_categorize and  *)
(* batch_summarize.  The clock counts half seconds.  An invocation runs up *)
(* to its first request in one step (Invoke); each answer of the backend   *)
(* is a further step (Respond); time passes on its own between the steps   *)
(* (Tick).  The statements of one step read the same clock value.          *)

min_interval == 2       \* 1.0 second
retry_delay == 10       \* time.sleep(5)
cache_ttl == 7200       \* 3600 seconds

model == <<"h">>

RECURSIVE Decimal(_)
\* str(n) for n >= 0
Decimal(n) == IF n < 10 THEN << DigitChars[n + 1] >> ELSE Decimal(n \div 10) \o << DigitChars[(n % 10) + 1] >>

\* _get_cache_key: md5 of f"{prompt}{max_tokens}{model}", held as the hashed text
get_cache_key(prompt, max_tokens) == prompt \o Decimal(max_tokens) \o model

\* the variant that accepts an entry of any age
is_cache_valid_forever(timestamp, now) == TRUE

\* _is_cache_valid at clock reading now
is_cache_valid(timestamp, now) == (now - timestamp) < cache_ttl

\* _rate_limit: the time slept at clock reading now
rate_limit_sleep(now, last) ==
    IF now - last < min_interval THEN min_interval - (now - last) ELSE 0

\* the variant in which only call_claude looks at is_available
short_circuits_call_claude_only(kind, available) == ~available /\ kind = "call_claude"

\* "if not self.is_available" at the head of call_claude, batch_categorize
\* and batch_summarize
short_circuits(kind, available) == ~available

\* what a failing invocation gives its caller: call_claude raises, the batch
\* methods catch the exception and return []
failure_outcome(kind) == IF kind = "call_claude" THEN "raised" ELSE "empty"

\* the status of the backend's answer; 500 stands for every failure other
\* than a rate limit (an error status, a timeout, a malformed body)
Statuses == {200, 429, 500}

\* A cache entry is the pair (response, timestamp); stored_by is history: the
\* (prompt, max_tokens, model) of the request whose answer the entry holds.

\* the text of a successful answer: the backend answers its requests
\* alternately with one word and with two
ResponseTexts == << <<"A">>, <<"B", " ", "b">> >>
ResponseTo(sent) == ResponseTexts[(sent % 2) + 1]

\* the requests the callers make: prompt and max_tokens
P_q == <<"q">>
P_q1 == <<"q", "1">>
P_categorize == <<"c", "a", "t", " ", "x">>
P_summarize == <<"s", "u", "m", " ", "x">>

Invocations ==
    { [kind |-> "call_claude", prompt |-> pr[1], max_tokens |-> pr[2], use_cache |-> pr[3]] :
         pr \in { <<P_q, 150, TRUE>>, <<P_q, 150, FALSE>>, <<P_q1, 50, TRUE>> } }
    \cup { [kind |-> "batch_categorize", prompt |-> P_categorize, max_tokens |-> 200, use_cache |-> TRUE],
           [kind |-> "batch_summarize", prompt |-> P_summarize, max_tokens |-> 80, use_cache |-> TRUE] }

Invoke ==
    /\ op = "service" /\ call.pc \in {"idle", "done"} /\ call.n < MaxCalls
    /\ \E inv \in Invocations :
          LET key == get_cache_key(inv.prompt, inv.max_tokens)
              cached == inv.use_cache /\ key \in DOMAIN response_cache
              this == [n |-> call.n + 1, kind |-> inv.kind, key |-> key, use_cache |-> inv.use_cache,
                       prompt |-> inv.prompt, max_tokens |-> inv.max_tokens,
                       prompt_tokens |-> Len(WordsFrom(inv.prompt, 1)),
                       started |-> clock, cache_before |-> response_cache]
              slept == rate_limit_sleep(clock, last_call_time)
          IN  IF short_circuits(inv.kind, ai_available)
              THEN /\ call' = this @@ [pc |-> "done", attempts |-> 0, outcome |-> failure_outcome(inv.kind),
                                       response |-> <<>>]
                   /\ UNCHANGED <<clock, last_call_time, response_cache, stats, requests>>
              ELSE IF cached /\ is_cache_valid(response_cache[key].timestamp, clock)
              THEN /\ stats' = [stats EXCEPT !.cache_hits = @ + 1]
                   /\ call' = this @@ [pc |-> "done", attempts |-> 0, outcome |-> "returned",
                                       response |-> response_cache[key].response]
                   /\ UNCHANGED <<clock, last_call_time, response_cache, requests>>
              ELSE /\ response_cache' = IF cached
                                        THEN [k \in DOMAIN response_cache \ {key} |-> response_cache[k]]
                                        ELSE response_cache
                   /\ clock' = clock + slept
                   /\ last_call_time' = clock + slept
                   /\ stats' = [stats EXCEPT !.total_calls = @ + 1]
                   /\ requests' = Append(requests, [time |-> clock + slept, call |-> call.n + 1])
                   /\ call' = this @@ [pc |-> "waiting", attempts |-> 1, outcome |-> "none",
                                       response |-> <<>>]
    /\ UNCHANGED <<pc, op, pass, input, articles, i, j, is_similar, judged, ai_available, candidate,
                   seen_hashes, result, target_categories, config_settings, pipeline_vars, discovery_vars>>

\* the backend answers the request in flight
Respond ==
    /\ op = "service" /\ call.pc = "waiting"
    /\ \E status \in Statuses :
          IF status = 200
          THEN LET text == ResponseTo(Len(requests))
               IN /\ response_cache' =
                        IF call.use_cache
                        THEN [k \in DOMAIN response_cache \cup {call.key} |->
                                 IF k = call.key
                                 THEN [response |-> text, timestamp |-> clock,
                                       stored_by |-> <<call.prompt, call.max_tokens, model>>]
                                 ELSE response_cache[k]]
                        ELSE response_cache
                  /\ stats' = [stats EXCEPT !.total_tokens_used =
                                   @ + call.prompt_tokens + Len(WordsFrom(text, 1))]
                  /\ call' = [call EXCEPT !.pc = "done", !.outcome = "returned", !.response = text]
                  /\ UNCHANGED <<clock, last_call_time, requests>>
          ELSE IF status = 429
          THEN /\ Len(requests) - stats.total_calls < MaxRateLimited
               /\ clock' = clock + retry_delay
               /\ requests' = Append(requests, [time |-> clock + retry_delay, call |-> call.n])
               /\ call' = [call EXCEPT !.attempts = @ + 1]
               /\ UNCHANGED <<last_call_time, response_cache, stats>>
          ELSE /\ stats' = [stats EXCEPT !.errors = @ + 1]
               /\ call' = [call EXCEPT !.pc = "done", !.outcome = failure_outcome(call.kind)]
               /\ UNCHANGED <<clock, last_call_time, response_cache, requests>>
    /\ UNCHANGED <<pc, op, pass, input, articles, i, j, is_similar, judged, ai_available, candidate,
                   seen_hashes, result, target_categories, config_settings, pipeline_vars, discovery_vars>>

\* time passes: half a second, or between two invocations all but half a
\* second of the cache's time to live; i counts the times it did
Tick ==
    /\ op = "service" /\ i < MaxIdle
    /\ i' = i + 1
    /\ \E d \in IF call.pc = "waiting" THEN {1} ELSE {1, cache_ttl - 1} : clock' = clock + d
    /\ UNCHANGED <<pc, op, pass, input, articles, j, is_similar, judged, ai_available, candidate,
                   seen_hashes, result, target_categories, config_settings, pipeline_vars,
                   last_call_time, response_cache, stats, requests, call, discovery_vars>>

-----------------------------------------------------------------------------
(* Specification SpecService: a run of invocations of one AIServiceManager *)

InitService ==
    /\ op = "service" /\ pc = "start" /\ pass = 1
    /\ input = <<>> /\ articles = <<>>
    /\ ai_available \in BOOLEAN
    /\ result = "none"
    /\ NoLoop /\ NoFetcher /\ NoConfig /\ NoPipeline /\ NoService /\ NoDiscovery

NextService == Invoke \/ Respond \/ Tick

SpecService == InitService /\ [][NextService]_vars

\* the positions in the request history of the requests invocation c sent
RequestsOf(c) == { k \in 1..Len(requests) : requests[k].call = c }

\* C17: one call_claude invocation sends at most two requests: a rate-limit
\* answer is followed, the fixed delay later, by exactly one retry; when the
\* retry is rate-limited too, or fails, the invocation ends with the error.
C17_RetryOnce ==
    op = "service" =>
        /\ \A c \in 1..call.n : Cardinality(RequestsOf(c)) <= 2
        /\ \A k \in 1..(Len(requests) - 1) :
              requests[k + 1].call = requests[k].call
                  => requests[k + 1].time - requests[k].time >= retry_delay
        /\ (call.pc = "waiting" => call.attempts <= 2)

\* C18: any two consecutive requests sent to the backend are at least
\* min_interval apart, the retried request of one invocation and the first
\* request of the next included.
C18_MinInterval ==
    op = "service" =>
        \A k \in 1..(Len(requests) - 1) :
            requests[k + 1].time - requests[k].time >= min_interval

\* C19: a service created without an API key never sends a request:
\* call_claude raises, batch_categorize and batch_summarize return an empty
\* list, and the cache, last_call_time and the counters keep their initial
\* values, whatever was called and however much time has passed.
C19_NoKeyNoRequest ==
    (op = "service" /\ ~ai_available) =>
        /\ requests = <<>>
        /\ response_cache = <<>>
        /\ last_call_time = 0
        /\ stats = NoStats
        /\ call.pc # "waiting"
        /\ call.pc = "done" =>
              /\ call.attempts = 0
              /\ call.kind = "call_claude" => call.outcome = "raised"
              /\ call.kind \in {"batch_categorize", "batch_summarize"} => call.outcome = "empty"

\* without a key, time has passed and batch_summarize has just returned []
\* as the last of MaxCalls invocations
C19_Witness ==
    /\ op = "service" /\ ~ai_available
    /\ call.pc = "done" /\ call.n = MaxCalls /\ i > 0
    /\ call.kind = "batch_summarize" /\ call.outcome = "empty"

\* the invocation looked its key up in the cache and found an entry
EntryFound == call.use_cache /\ call.key \in DOMAIN call.cache_before

\* the age of that entry at the lookup
EntryAge == call.started - call.cache_before[call.key].timestamp

\* C20: an invocation returns a response without sending a request only
\* when the cache held an entry for its key stored less than cache_ttl
\* before, and then it returns that entry's response; an entry found expired
\* is deleted and a request is sent; a failed request leaves no entry for
\* the key and no other entry changed.
C20_CacheValidity ==
    (op = "service" /\ ai_available /\ call.pc # "idle") =>
        /\ (call.pc = "done" /\ call.outcome = "returned" /\ call.attempts = 0) =>
              /\ EntryFound
              /\ EntryAge < cache_ttl
              /\ call.response = call.cache_before[call.key].response
              /\ response_cache = call.cache_before
        /\ (EntryFound /\ EntryAge >= cache_ttl) =>
              /\ call.attempts >= 1
              /\ call.pc = "waiting" => call.key \notin DOMAIN response_cache
        /\ (call.pc = "done" /\ call.outcome \in {"raised", "empty"}) =>
              /\ call.attempts >= 1
              /\ call.use_cache => call.key \notin DOMAIN response_cache
              /\ \A k \in DOMAIN response_cache :
                    k \in DOMAIN call.cache_before /\ response_cache[k] = call.cache_before[k]

\* an invocation found the entry for its key exactly cache_ttl old, sent a
\* request and stored the new answer
C20_Witness ==
    /\ op = "service" /\ ai_available
    /\ call.pc = "done" /\ call.outcome = "returned" /\ call.attempts = 1
    /\ EntryFound /\ EntryAge = cache_ttl
    /\ response_cache[call.key].response # call.cache_before[call.key].response

\* C29: a response is served from the cache only to a request whose
\* (prompt, max_tokens, model) equals that of the request that stored it; two
\* requests that differ in one of the three never share a cache key.
C29_CacheKeyInjective ==
    (op = "service" /\ call.pc = "done" /\ call.outcome = "returned" /\ call.attempts = 0) =>
        call.cache_before[call.key].stored_by = <<call.prompt, call.max_tokens, model>>

-----------------------------------------------------------------------------
(* core/category_discovery.py: CategoryDiscovery.  Suggestion names and    *)
(* terms are character sequences like every other text.  A dict is kept as *)
(* the sequence of its items in insertion order.  Confidence is an integer *)
(* in thousandths; term frequencies count halves.                          *)

\* a dict as the sequence of its (key, value) items, in insertion order
DictKeys(dict) == { dict[n].key : n \in 1..Len(dict) }
DictGet(dict, key) == dict[CHOOSE n \in 1..Len(dict) : dict[n].key = key].value

\* dict[key] = value: a new key is appended, an existing key keeps its place
DictSet(dict, key, value) ==
    IF key \in DictKeys(dict)
    THEN [n \in 1..Len(dict) |->
             IF dict[n].key = key THEN [key |-> key, value |-> value] ELSE dict[n]]
    ELSE Append(dict, [key |-> key, value |-> value])

\* _get_stop_words
stop_words ==
    {<<"t","h","e">>, <<"a","n","d">>, <<"f","o","r">>, <<"w","i","t","h">>,
      <<"t","h","i","s">>, <<"t","h","a","t">>, <<"f","r","o","m">>, <<"w","i","l","l">>,
      <<"h","a","v","e">>, <<"b","e","e","n">>, <<"m","o","r","e">>, <<"a","b","o","u","t">>,
      <<"a","f","t","e","r">>, <<"a","l","s","o">>, <<"t","h","a","n">>,
      <<"t","h","e","i","r">>, <<"w","h","i","c","h">>, <<"t","h","e","s","e">>,
      <<"c","o","u","l","d">>, <<"w","o","u","l","d">>, <<"s","h","o","u","l","d">>,
      <<"t","h","e","r","e">>, <<"w","h","e","r","e">>, <<"w","h","e","n">>,
      <<"w","h","a","t">>, <<"i","n","t","o">>, <<"t","h","r","o","u","g","h">>,
      <<"u","n","d","e","r">>, <<"o","v","e","r">>, <<"a","r","t","i","c","l","e">>,
      <<"n","e","w","s">>, <<"r","e","p","o","r","t">>, <<"s","a","y","s">>,
      <<"a","c","c","o","r","d","i","n","g">>, <<"n","e","w">>, <<"d","a","t","a">> }

\* tech_terms of _extract_key_terms
tech_terms ==
    {<<"q","u","a","n","t","u","m">>, <<"b","l","o","c","k","c","h","a","i","n">>,
      <<"m","e","t","a","v","e","r","s","e">>, <<"w","e","b","3">>, <<"d","e","f","i">>,
      <<"n","f","t">>, <<"e","d","g","e"," ","c","o","m","p","u","t","i","n","g">>,
      <<"i","o","t">>, <<"5","g">>, <<"6","g">>, <<"a","r">>, <<"v","r">>, <<"x","r">>,
      <<"m","l","o","p","s">>, <<"d","e","v","s","e","c","o","p","s">>,
      <<"f","i","n","t","e","c","h">>, <<"h","e","a","l","t","h","t","e","c","h">>,
      <<"e","d","t","e","c","h">>, <<"s","u","s","t","a","i","n","a","b","i","l","i","t","y">>,
      <<"g","r","e","e","n"," ","t","e","c","h">>,
      <<"c","l","i","m","a","t","e"," ","t","e","c","h">>, <<"r","o","b","o","t","i","c","s">>,
      <<"a","u","t","o","n","o","m","o","u","s">>, <<"d","r","o","n","e">>,
      <<"s","a","t","e","l","l","i","t","e">>, <<"s","p","a","c","e"," ","t","e","c","h">> }

LowerLetters == { LowerChars[n] : n \in 1..26 }
IsLowerLetter(c) == c \in LowerLetters
IsUpperLetter(c) == c \in DOMAIN LowerMap

\* \w of the regular expressions
IsWordChar(c) == IsLowerLetter(c) \/ IsUpperLetter(c) \/ IsDigit(c) \/ c = "_"

\* the last position of the run of word characters that starts at a
RunEnd(s, a) ==
    CHOOSE b \in a..Len(s) :
        /\ (b = Len(s) \/ ~IsWordChar(s[b + 1]))
        /\ \A n \in a..(b - 1) : IsWordChar(s[n + 1])

\* the maximal runs of word characters of s, as <<first, last>>; a pattern of
\* the shape \b...\b that matches word characters only matches whole runs
WordRuns(s) ==
    { << a, RunEnd(s, a) >> :
        a \in { n \in 1..Len(s) : IsWordChar(s[n]) /\ (n = 1 \/ ~IsWordChar(s[n - 1])) } }

RECURSIVE InOrder(_, _)
\* the runs of a set in text order, as the sequence of their texts
InOrder(s, runs) ==
    IF runs = {} THEN <<>>
    ELSE LET r == CHOOSE x \in runs : \A y \in runs : x[1] <= y[1]
         IN  << SubSeq(s, r[1], r[2]) >> \o InOrder(s, runs \ {r})

\* re.findall(r'\b[a-z]{4,}\b', text)
find_words(text) ==
    InOrder(text, { r \in WordRuns(text) :
                      /\ r[2] - r[1] + 1 >= 4
                      /\ \A n \in r[1]..r[2] : IsLowerLetter(text[n]) })

\* re.findall(r'\b[A-Z][a-z]+(?:[A-Z][a-z]+)+\b', text): the runs made of two
\* or more capitalised parts
find_tech_names(text) ==
    InOrder(text, { r \in WordRuns(text) :
                      /\ IsUpperLetter(text[r[1]]) /\ IsLowerLetter(text[r[2]])
                      /\ \A n \in r[1]..r[2] : IsLowerLetter(text[n]) \/ IsUpperLetter(text[n])
                      /\ \A n \in r[1]..(r[2] - 1) :
                            IsUpperLetter(text[n]) => IsLowerLetter(text[n + 1])
                      /\ \E n \in (r[1] + 1)..r[2] : IsUpperLetter(text[n]) })

\* f"{article.title} {article.description}"
title_and_description(article) == article.title \o <<" ">> \o article.description

\* the words of an article that are no stop words, in text order
significant_words(article) ==
    SelectSeq(find_words(Lower(title_and_description(article))), LAMBDA w : w \notin stop_words)

\* set(re.findall(...)) - self._get_stop_words()
terms_of(article) ==
    LET words == significant_words(article) IN { words[n] : n \in 1..Len(words) }

\* the names of _generate_category_name
N_emerging_tech == <<"e","m","e","r","g","i","n","g","_","t","e","c","h">>
N_tech == <<"_","t","e","c","h">>
N_quantum_computing == <<"q","u","a","n","t","u","m","_","c","o","m","p","u","t","i","n","g">>
N_blockchain_crypto == <<"b","l","o","c","k","c","h","a","i","n","_","c","r","y","p","t","o">>
N_climate_tech == <<"c","l","i","m","a","t","e","_","t","e","c","h">>
N_space_tech == <<"s","p","a","c","e","_","t","e","c","h">>
N_robotics_automation == <<"r","o","b","o","t","i","c","s","_","a","u","t","o","m","a","t","i","o","n">>
N_health_tech == <<"h","e","a","l","t","h","_","t","e","c","h">>
N_fintech == <<"f","i","n","t","e","c","h">>

\* the technology areas in the order of the if / elif chain
areas ==
    << [name |-> N_quantum_computing,
        terms |-> {<<"q","u","a","n","t","u","m">>, <<"c","o","m","p","u","t","i","n","g">>}],
       [name |-> N_blockchain_crypto,
        terms |-> {<<"b","l","o","c","k","c","h","a","i","n">>, <<"c","r","y","p","t","o">>, <<"d","e","f","i">>, <<"n","f","t">>}],
       [name |-> N_climate_tech,
        terms |-> {<<"c","l","i","m","a","t","e">>, <<"s","u","s","t","a","i","n","a","b","i","l","i","t","y">>, <<"g","r","e","e","n">>, <<"c","a","r","b","o","n">>}],
       [name |-> N_space_tech,
        terms |-> {<<"s","p","a","c","e">>, <<"s","a","t","e","l","l","i","t","e">>, <<"r","o","c","k","e","t">>, <<"a","e","r","o","s","p","a","c","e">>}],
       [name |-> N_robotics_automation,
        terms |-> {<<"r","o","b","o","t">>, <<"r","o","b","o","t","i","c","s">>, <<"a","u","t","o","m","a","t","i","o","n">>, <<"a","u","t","o","n","o","m","o","u","s">>}],
       [name |-> N_health_tech,
        terms |-> {<<"h","e","a","l","t","h">>, <<"m","e","d","i","c","a","l">>, <<"b","i","o","t","e","c","h">>, <<"p","h","a","r","m","a">>}],
       [name |-> N_fintech,
        terms |-> {<<"f","i","n","t","e","c","h">>, <<"p","a","y","m","e","n","t">>, <<"b","a","n","k","i","n","g">>, <<"f","i","n","a","n","c","e">>}] >>

\* _identify_uncategorized_articles: a score below 0.5 or the category
\* 'webdev'; a NewsArticle has no category_confidence attribute
is_uncategorized(article) == 2 * article.score < ScoreUnit \/ article.category = "webdev"

identify_uncategorized_articles(list) == SelectSeq(list, is_uncategorized)

RECURSIVE CountInto(_, _, _)
\* counter[item] += amount for every item of the sequence
CountInto(counter, items, amount) ==
    IF items = <<>> THEN counter
    ELSE LET item == Head(items)
             counted == IF item \in DictKeys(counter) THEN DictGet(counter, item) ELSE 0
         IN  CountInto(DictSet(counter, item, counted + amount), Tail(items), amount)

RECURSIVE Add(_, _, _)
\* counter[item] += amount for every item of the sequence, on a Counter
\* whose order of keys is not kept
Add(counter, items, amount) ==
    IF items = <<>> THEN counter
    ELSE LET item == Head(items)
         IN  Add([k \in DOMAIN counter \cup {item} |->
                     (IF k \in DOMAIN counter THEN counter[k] ELSE 0)
                     + (IF k = item THEN amount ELSE 0)],
                 Tail(items), amount)

RECURSIVE AsSequence(_)
\* the elements of a set of texts, one after the other
AsSequence(set) ==
    IF set = {} THEN <<>>
    ELSE LET x == CHOOSE y \in set : TRUE IN << x >> \o AsSequence(set \ {x})

RECURSIVE extract_key_terms(_, _)
\* _extract_key_terms: 2 for every known tech term the text contains, 1 for
\* every occurrence of a significant word, 1.5 for every CamelCase name
extract_key_terms(frequencies, list) ==
    IF list = <<>> THEN frequencies
    ELSE LET article == Head(list)
             text == Lower(title_and_description(article))
             known == AsSequence({ term \in tech_terms : Contains(text, term) })
             names == find_tech_names(title_and_description(article))
             boosted == Add(frequencies, known, 4)
             worded == Add(boosted, significant_words(article), 2)
         IN  extract_key_terms(Add(worded, [n \in 1..Len(names) |-> Lower(names[n])], 3),
                               Tail(list))

\* the variant that also accepts an overlap of exactly 20%
shares_enough_inclusive(overlap, min_terms) == 5 * overlap >= min_terms

\* (overlap / min_terms) > 0.2
shares_enough(overlap, min_terms) == 5 * overlap > min_terms

\* _articles_share_topic
articles_share_topic(article1, article2) ==
    LET terms1 == terms_of(article1)
        terms2 == terms_of(article2)
    IN  IF terms1 = {} \/ terms2 = {} THEN FALSE
        ELSE shares_enough(Cardinality(terms1 \cap terms2),
                           Min(Cardinality(terms1), Cardinality(terms2)))

RECURSIVE Ascending(_)
\* the positions of a set in increasing order
Ascending(positions) ==
    IF positions = {} THEN <<>>
    ELSE LET p == CHOOSE x \in positions : \A y \in positions : x <= y
         IN  << p >> \o Ascending(positions \ {p})

\* the variant that keeps every cluster
retain_cluster_any_size(cluster, min_size) == TRUE

\* len(cluster) >= self.min_cluster_size
retain_cluster(cluster, min_size) == Len(cluster) >= min_size

RECURSIVE ClusterLoop(_, _, _, _, _)
\* the outer loop of _cluster_similar_articles from position seed on; a cluster
\* is the sequence of the positions of its articles in the list
ClusterLoop(list, seed, clustered, clusters, min_size) ==
    IF seed > Len(list) THEN clusters
    ELSE IF seed \in clustered THEN ClusterLoop(list, seed + 1, clustered, clusters, min_size)
    ELSE LET similar == { k \in (seed + 1)..Len(list) :
                            k \notin clustered /\ articles_share_topic(list[seed], list[k]) }
             cluster == << seed >> \o Ascending(similar)
         IN  ClusterLoop(list, seed + 1, clustered \cup {seed} \cup similar,
                         IF retain_cluster(cluster, min_size) THEN Append(clusters, cluster)
                         ELSE clusters,
                         min_size)

cluster_similar_articles(list, min_size) == ClusterLoop(list, 1, {}, <<>>, min_size)

\* Counter.most_common(k): the k items of highest count, items of equal
\* count in the order they were first counted
most_common(counter, k) ==
    LET rank(n) == Cardinality({ m \in 1..Len(counter) :
                                   \/ counter[m].value > counter[n].value
                                   \/ (counter[m].value = counter[n].value /\ m < n) }) + 1
    IN  [p \in 1..Min(k, Len(counter)) |->
            counter[CHOOSE n \in 1..Len(counter) : rank(n) = p]]

RECURSIVE ClusterTerms(_, _, _)
\* cluster_terms: the occurrences of every significant word in the articles
\* of a cluster
ClusterTerms(list, cluster, counter) ==
    IF cluster = <<>> THEN counter
    ELSE ClusterTerms(list, Tail(cluster),
                      CountInto(counter, significant_words(list[Head(cluster)]), 1))

RECURSIVE AreaName(_, _)
\* the first technology area from position n on that shares a term with the
\* set, or no name
AreaName(term_set, n) ==
    IF n > Len(areas) THEN <<>>
    ELSE IF areas[n].terms \cap term_set # {} THEN areas[n].name
    ELSE AreaName(term_set, n + 1)

\* _generate_category_name
generate_category_name(top_terms) ==
    IF top_terms = <<>> THEN N_emerging_tech
    ELSE LET term_set == { Lower(top_terms[n].key) : n \in 1..Len(top_terms) }
             area == AreaName(term_set, 1)
         IN  IF area # <<>> THEN area ELSE top_terms[1].key \o N_tech

RECURSIVE Sum(_)
Sum(numbers) == IF numbers = <<>> THEN 0 ELSE Head(numbers) + Sum(Tail(numbers))

ConfidenceUnit == 1000

\* _calculate_confidence before rounding, as the fraction <<p, q>> of
\* hundredths: size_score * 0.5 + freq_score * 0.5 with size_score =
\* min(1, size / 10) and freq_score = min(1, (sum / len) / 10), or 0 without
\* top terms
confidence_hundredths(size, top_terms) ==
    LET len == Len(top_terms)
        sum == Sum([n \in 1..len |-> top_terms[n].value])
    IN  IF len = 0 THEN << 5 * Min(10, size), 1 >>
        ELSE << 5 * (Min(10, size) * len + Min(10 * len, sum)), len >>

\* round(confidence, 2), in thousandths: the nearest hundredth; when the
\* fraction lies exactly between two hundredths the binary value decides, so
\* that either neighbour can be the result (tie says which)
round_2(x, tie) ==
    LET low == x[1] \div x[2]
    IN  IF 2 * (x[1] % x[2]) < x[2] THEN 10 * low
        ELSE IF 2 * (x[1] % x[2]) > x[2] THEN 10 * (low + 1)
        ELSE 10 * (low + tie)

\* _calculate_confidence
calculate_confidence(size, top_terms, tie) == round_2(confidence_hundredths(size, top_terms), tie)

\* the record _generate_category_suggestions makes of one cluster;
\* discovered_at is the number of the run
Suggestion(list, cluster, now, tie) ==
    LET top_terms == most_common(ClusterTerms(list, cluster, <<>>), 5)
        category_name == generate_category_name(top_terms)
    IN  [name |-> category_name,
         article_count |-> Len(cluster),
         key_terms |-> [n \in 1..Len(top_terms) |-> top_terms[n].key],
         sample_titles |-> [n \in 1..Min(3, Len(cluster)) |-> list[cluster[n]].title],
         confidence |-> calculate_confidence(Len(cluster), top_terms, tie),
         discovered_at |-> now]

\* suggestions[category_name] = {...}
put_suggestion(suggestions, record) == DictSet(suggestions, record.name, record)

RECURSIVE SuggestLoop(_, _, _, _, _, _)
\* the loop of _generate_category_suggestions from cluster n on
SuggestLoop(list, clusters, n, suggestions, now, ties) ==
    IF n > Len(clusters) THEN suggestions
    ELSE SuggestLoop(list, clusters, n + 1,
                     put_suggestion(suggestions, Suggestion(list, clusters[n], now, ties[n])),
                     now, ties)

generate_category_suggestions(list, clusters, now, ties) ==
    SuggestLoop(list, clusters, 1, <<>>, now, ties)

(* _enhance_with_ai_analysis.  The backend's answer is kept as what        *)
(* re.search(r'\{.*\}') and json.loads make of it: no match, a text that   *)
(* json.loads rejects, or the parsed object.  A value of the parsed object *)
(* is kept as what dict.update does with it: the fields it merges (a JSON  *)
(* object, or an array of [field, value] pairs), or an exception (a string *)
(* of single characters, a number, null).                                  *)

\* {"confidence": 95, "rating": "keep"}
V_rated == [type |-> "object", raises |-> FALSE,
            fields |-> [confidence |-> 95 * ConfidenceUnit, rating |-> <<"k","e","e","p">>]]

\* "discard"
V_discard == [type |-> "string", raises |-> TRUE]

\* [["confidence", 0.123]]
V_pairs == [type |-> "array", raises |-> FALSE, fields |-> [confidence |-> 123]]

N_other == <<"o","t","h","e","r">>

Raising == [kind |-> "raised"]
NoJson == [kind |-> "text", json |-> "none"]
InvalidJson == [kind |-> "text", json |-> "invalid"]
Parsed(object) == [kind |-> "text", json |-> "object", object |-> object]

\* the answers to a request about the suggestions of these names: a failed
\* call, a text without a JSON object, a text whose braces hold no JSON, an
\* object that rates the first name with an object, every other name with a
\* string and a name nobody suggested with an object, and an object that
\* gives the first name an array of pairs
Responses(names) ==
    << Raising, NoJson, InvalidJson,
       Parsed([k \in { names[n] : n \in 1..Len(names) } \cup {N_other} |->
                  IF k = names[1] \/ k = N_other THEN V_rated ELSE V_discard]),
       Parsed([k \in { names[1] } |-> V_pairs]) >>

\* dict.update
update(record, fields) ==
    [f \in DOMAIN record \cup DOMAIN fields |-> IF f \in DOMAIN fields THEN fields[f] ELSE record[f]]

RECURSIVE MergeLoop(_, _, _)
\* "for key in suggestions: if key in ai_suggestions: suggestions[key].update(...)"
\* from item n on; an exception ends the loop and leaves the records already
\* updated as they are
MergeLoop(suggestions, n, ai_suggestions) ==
    IF n > Len(suggestions) THEN suggestions
    ELSE LET key == suggestions[n].key
         IN  IF key \notin DOMAIN ai_suggestions
             THEN MergeLoop(suggestions, n + 1, ai_suggestions)
             ELSE IF ai_suggestions[key].raises THEN suggestions
             ELSE MergeLoop(DictSet(suggestions, key,
                                    update(suggestions[n].value, ai_suggestions[key].fields)),
                            n + 1, ai_suggestions)

\* _enhance_with_ai_analysis, given the answer to its request
enhance_with_ai_analysis(suggestions, response) ==
    IF response.kind = "raised" THEN suggestions
    ELSE IF response.json # "object" THEN suggestions
    ELSE MergeLoop(suggestions, 1, response.object)

\* the variant that writes a name whether or not the history has it
is_new_always(patterns, key) == TRUE

\* "if key not in self.discovered_patterns"
is_new(patterns, key) == key \notin DictKeys(patterns)

\* the trend record of save_history
TrendRecord(key, value, now) ==
    [name |-> key, discovered |-> now, confidence |-> value.confidence]

RECURSIVE save_patterns(_, _, _)
\* the loop of save_history from item n of new_suggestions on: the patterns
save_patterns(patterns, new_suggestions, n) ==
    IF n > Len(new_suggestions) THEN patterns
    ELSE save_patterns(IF is_new(patterns, new_suggestions[n].key)
                       THEN DictSet(patterns, new_suggestions[n].key, new_suggestions[n].value)
                       ELSE patterns,
                       new_suggestions, n + 1)

RECURSIVE save_topics(_, _, _, _, _)
\* the same loop: the trend list
save_topics(patterns, topics, new_suggestions, n, now) ==
    IF n > Len(new_suggestions) THEN topics
    ELSE LET key == new_suggestions[n].key
             new == is_new(patterns, key)
         IN  save_topics(IF new THEN DictSet(patterns, key, new_suggestions[n].value) ELSE patterns,
                         IF new THEN Append(topics, TrendRecord(key, new_suggestions[n].value, now))
                         ELSE topics,
                         new_suggestions, n + 1, now)

\* the history file: absent, or what a run wrote, or what a failed write left
NoFile == [state |-> "absent"]
Written(patterns, topics, now) ==
    [state |-> "written", patterns |-> patterns, topics |-> topics, last_updated |-> now]

-----------------------------------------------------------------------------
(* One run of analyze_uncategorized_patterns in four steps: Analyze (the   *)
(* candidates and their terms), Cluster, Suggest and, with a backend,      *)
(* Enhance; Save is save_history and the return.                           *)

MaxRuns == 2         \* runs of analyze_uncategorized_patterns on one instance
MaxCandidates == 2   \* length of the article list of a discovery run

T_QuantumLeap == <<"Q","u","a","n","t","u","m"," ","l","e","a","p">>
T_ComputingPower == <<"c","o","m","p","u","t","i","n","g"," ","p","o","w","e","r">>
T_QuantumLeapNews == <<"T","h","e"," ","Q","u","a","n","t","u","m"," ","l","e","a","p"," ","n","e","w","s">>
T_RustCargo == <<"r","u","s","t"," ","c","a","r","g","o">>
T_RustTools == <<"r","u","s","t"," ","c","a","r","g","o"," ","c","r","a","t","e"," ","b","u","i","l","d"," ","t","o","o","l","s">>
T_RustWasm == <<"r","u","s","t"," ","w","a","s","m"," ","n","o","d","e"," ","d","e","n","o"," ","j","a","v","a">>
T_RustNode == <<"r","u","s","t"," ","c","a","r","g","o"," ","n","o","d","e"," ","d","e","n","o"," ","j","a","v","a">>
T_NoTerms == <<"w","e","b","3"," ","r","u","s","t","_","l","a","n","g"," ","A","I">>
D_TypeScript == <<"T","y","p","e","S","c","r","i","p","t"," ","r","u","s","t",","," ","r","u","s","t","-","l","a","n","g">>

\* an article of low score, and so a candidate whatever its category
Story(n, title, description) ==
    MkArticle(n, title, <<"u">> \o Numeral(n), description, "ai", 1, 0)

\* an article of score 0.8: a candidate only under the category 'webdev'
ScoredStory(n, title, category) ==
    MkArticle(n, title, <<"u">> \o Numeral(n), <<>>, category, 1, (4 * ScoreUnit) \div 5)

DiscoveryStories ==
    << Story(1, T_QuantumLeap, <<>>), ScoredStory(2, T_ComputingPower, "webdev"),
       Story(3, T_RustCargo, D_TypeScript), ScoredStory(4, T_RustCargo, "ai") >>

ClusterStories ==
    << Story(1, T_QuantumLeap, <<>>), Story(2, T_ComputingPower, <<>>),
       Story(3, T_QuantumLeapNews, <<>>), Story(4, T_RustTools, <<>>),
       Story(5, T_RustWasm, <<>>), Story(6, T_RustNode, <<>>), Story(7, T_NoTerms, <<>>) >>

\* the lists of up to max of these stories
ListsOf(stories, max) ==
    UNION { { [n \in 1..m |-> stories[ks[n]]] : ks \in [1..m -> 1..Len(stories)] } : m \in 0..max }

\* the record of a stored suggestion
H_quantum ==
    [name |-> N_quantum_computing, article_count |-> 9, key_terms |-> << <<"q","u","a","n","t","u","m">> >>,
     sample_titles |-> << T_QuantumLeap >>, confidence |-> 900, discovered_at |-> 0]

\* the histories load_history finds: none, or one suggestion and its trend
\* record
StoredHistories ==
    << [patterns |-> <<>>, topics |-> <<>>],
       [patterns |-> << [key |-> N_quantum_computing, value |-> H_quantum] >>,
        topics |-> << TrendRecord(N_quantum_computing, H_quantum, 0) >>] >>

NoResponse == [kind |-> "none"]

\* a run that has just been entered
NewRun(n) ==
    [pc |-> "returned", n |-> n, articles |-> <<>>, clusters |-> <<>>, heuristic |-> <<>>,
     suggestions |-> <<>>, response |-> NoResponse]

\* analyze_uncategorized_patterns up to _extract_key_terms
Analyze ==
    /\ op = "discover" /\ discovery.pc \in {"idle", "returned"} /\ discovery.n < MaxRuns
    /\ \E list \in ListsOf(DiscoveryStories, MaxCandidates) :
          LET uncategorized == identify_uncategorized_articles(list)
          IN  /\ input' = list
              /\ IF uncategorized = <<>>
                 THEN /\ discovery' = NewRun(discovery.n + 1)
                      /\ UNCHANGED term_frequencies
                 ELSE /\ discovery' = [NewRun(discovery.n + 1) EXCEPT
                                          !.pc = "cluster", !.articles = uncategorized]
                      /\ term_frequencies' = extract_key_terms(term_frequencies, uncategorized)
    /\ UNCHANGED <<pc, op, pass, articles, i, j, is_similar, judged, ai_available, candidate,
                   seen_hashes, result, target_categories, config_settings,
                   pipeline_vars, service_vars,
                   min_cluster_size, discovered_patterns, emerging_topics, history_file, loaded>>

\* _cluster_similar_articles on the candidates
Cluster ==
    /\ op \in {"cluster", "discover"} /\ discovery.pc = "cluster"
    /\ discovery' = [discovery EXCEPT
                        !.pc = "suggest",
                        !.clusters = cluster_similar_articles(discovery.articles, min_cluster_size)]
    /\ UNCHANGED <<pc, op, pass, input, articles, i, j, is_similar, judged, ai_available, candidate,
                   seen_hashes, result, target_categories, config_settings,
                   pipeline_vars, service_vars,
                   min_cluster_size, term_frequencies, discovered_patterns, emerging_topics,
                   history_file, loaded>>

\* _generate_category_suggestions, and the test of the backend
Suggest ==
    /\ op = "discover" /\ discovery.pc = "suggest"
    /\ \E ties \in [1..Len(discovery.clusters) -> {0, 1}] :
          LET suggestions == generate_category_suggestions(discovery.articles, discovery.clusters,
                                                           discovery.n, ties)
          IN  discovery' = [discovery EXCEPT
                               !.pc = IF ai_available THEN "enhance" ELSE "save",
                               !.heuristic = suggestions,
                               !.suggestions = suggestions]
    /\ UNCHANGED <<pc, op, pass, input, articles, i, j, is_similar, judged, ai_available, candidate,
                   seen_hashes, result, target_categories, config_settings,
                   pipeline_vars, service_vars,
                   min_cluster_size, term_frequencies, discovered_patterns, emerging_topics,
                   history_file, loaded>>

\* _enhance_with_ai_analysis: without suggestions no request is made
Enhance ==
    /\ op = "discover" /\ discovery.pc = "enhance"
    /\ IF discovery.suggestions = <<>>
       THEN discovery' = [discovery EXCEPT !.pc = "save"]
       ELSE LET names == [n \in 1..Len(discovery.suggestions) |-> discovery.suggestions[n].key]
            IN  \E k \in 1..Len(Responses(names)) :
                   discovery' = [discovery EXCEPT
                                    !.pc = "save",
                                    !.response = Responses(names)[k],
                                    !.suggestions = enhance_with_ai_analysis(discovery.suggestions,
                                                                             Responses(names)[k])]
    /\ UNCHANGED <<pc, op, pass, input, articles, i, j, is_similar, judged, ai_available, candidate,
                   seen_hashes, result, target_categories, config_settings,
                   pipeline_vars, service_vars,
                   min_cluster_size, term_frequencies, discovered_patterns, emerging_topics,
                   history_file, loaded>>

\* save_history and the return of the suggestions: the file is rewritten,
\* or the write fails and the file stays as it was
Save ==
    /\ op = "discover" /\ discovery.pc = "save"
    /\ LET patterns == save_patterns(discovered_patterns, discovery.suggestions, 1)
           topics == save_topics(discovered_patterns, emerging_topics, discovery.suggestions, 1,
                                 discovery.n)
       IN  /\ discovered_patterns' = patterns
           /\ emerging_topics' = topics
           /\ \/ history_file' = Written(patterns, topics, discovery.n)
              \/ UNCHANGED history_file
    /\ discovery' = [discovery EXCEPT !.pc = "returned"]
    /\ UNCHANGED <<pc, op, pass, input, articles, i, j, is_similar, judged, ai_available, candidate,
                   seen_hashes, result, target_categories, config_settings,
                   pipeline_vars, service_vars,
                   min_cluster_size, term_frequencies, loaded>>

-----------------------------------------------------------------------------
(* Specification SpecCluster: one call _cluster_similar_articles(articles) *)

InitCluster ==
    /\ op = "cluster" /\ pc = "start" /\ pass = 1
    /\ input \in ListsOf(ClusterStories, MaxArticles)
    /\ articles = <<>>
    /\ ai_available = FALSE
    /\ result = "none"
    /\ NoLoop /\ NoFetcher /\ NoConfig /\ NoPipeline /\ NoService
    /\ min_cluster_size \in 0..MaxArticles
    /\ term_frequencies = <<>>
    /\ discovered_patterns = <<>> /\ emerging_topics = <<>>
    /\ history_file = NoFile /\ loaded = StoredHistories[1]
    /\ discovery = [NewRun(1) EXCEPT !.pc = "cluster", !.articles = input]

NextCluster == Cluster

SpecCluster == InitCluster /\ [][NextCluster]_vars

\* the candidates of the run were clustered
Clustered == discovery.pc \in {"suggest", "enhance", "save", "returned"} /\ discovery.articles # <<>>

\* the positions of the candidates that are in cluster c
MembersOf(c) == { discovery.clusters[c][n] : n \in 1..Len(discovery.clusters[c]) }

\* C24: every cluster _cluster_similar_articles returns has at least
\* min_cluster_size members, for every candidate list and every
\* min_cluster_size.
C24_MinClusterSize ==
    \A c \in 1..Len(discovery.clusters) : Len(discovery.clusters[c]) >= min_cluster_size

\* with a minimum of 2, of three candidates two were returned as a cluster
\* and the third, alone in its group, was not
C24_Witness ==
    /\ op = "cluster" /\ Clustered
    /\ min_cluster_size = 2
    /\ Len(discovery.articles) = 3
    /\ Len(discovery.clusters) = 1 /\ Len(discovery.clusters[1]) = 2
    /\ terms_of(discovery.articles[CHOOSE n \in 1..3 : n \notin MembersOf(1)]) # {}

\* the two term sets share strictly more than 20% of the smaller one
OverlapsSeed(seed, other) ==
    LET terms1 == terms_of(discovery.articles[seed])
        terms2 == terms_of(discovery.articles[other])
    IN  /\ terms1 # {} /\ terms2 # {}
        /\ 5 * Cardinality(terms1 \cap terms2) > Min(Cardinality(terms1), Cardinality(terms2))

-----------------------------------------------------------------------------
(* Specification SpecDiscovery: runs of analyze_uncategorized_patterns on  *)
(* one CategoryDiscovery                                                   *)

InitDiscovery ==
    /\ op = "discover" /\ pc = "start" /\ pass = 1
    /\ input = <<>> /\ articles = <<>>
    /\ ai_available \in BOOLEAN
    /\ result = "none"
    /\ NoLoop /\ NoFetcher /\ NoConfig /\ NoPipeline /\ NoService
    /\ min_cluster_size \in 1..2
    /\ term_frequencies = <<>>
    /\ \E h \in 1..Len(StoredHistories) :
          /\ loaded = StoredHistories[h]
          /\ discovered_patterns = loaded.patterns
          /\ emerging_topics = loaded.topics
          /\ history_file = IF h = 1 THEN NoFile ELSE Written(loaded.patterns, loaded.topics, 0)
    /\ discovery = NoRun

NextDiscovery == Analyze \/ Cluster \/ Suggest \/ Enhance \/ Save

SpecDiscovery == InitDiscovery /\ [][NextDiscovery]_vars

\* save_history has run and the suggestions were returned
Returned_ == op = "discover" /\ discovery.pc = "returned" /\ discovery.articles # <<>>

\* the record stored under this name was stored by an earlier run
StoredBefore(name) ==
    /\ name \in DictKeys(discovered_patterns)
    /\ DictGet(discovered_patterns, name).discovered_at < discovery.n

\* C21: a record stored in the history map under a suggestion name is never
\* replaced, modified or removed by a later run, even when that run
\* discovers the same name with another article_count or confidence; the
\* names of the history only grow.
C21_HistoryOnlyGrows ==
    [][\A k \in 1..Len(discovered_patterns) :
          /\ k <= Len(discovered_patterns')
          /\ discovered_patterns'[k] = discovered_patterns[k]]_vars

\* the second run returned, under a name an earlier run had stored, a record
\* of another article_count and another confidence
C21_Witness ==
    /\ Returned_ /\ discovery.n = 2
    /\ \E k \in 1..Len(discovery.suggestions) :
          LET name == discovery.suggestions[k].key
          IN  /\ StoredBefore(name)
              /\ DictGet(discovered_patterns, name).discovered_at = 1
              /\ DictGet(discovered_patterns, name).article_count
                    # discovery.suggestions[k].value.article_count
              /\ DictGet(discovered_patterns, name).confidence
                    # discovery.suggestions[k].value.confidence

\* the name _generate_category_suggestions derives for cluster c
NameOf(c) == Suggestion(discovery.articles, discovery.clusters[c], discovery.n, 0).name

\* the first cluster, in cluster order, that derives this name
FirstNamed(name) ==
    CHOOSE c \in 1..Len(discovery.clusters) :
        NameOf(c) = name /\ \A d \in 1..(c - 1) : NameOf(d) # name

\* the record is the one made of this cluster, the confidence apart
MadeOf(record, c) ==
    LET made == Suggestion(discovery.articles, discovery.clusters[c], discovery.n, 0)
    IN  /\ record.article_count = made.article_count
        /\ record.key_terms = made.key_terms
        /\ record.sample_titles = made.sample_titles

\* C22: when two clusters of one run derive the same suggestion name, the
\* record returned for the name, and persisted when the name is new, is that
\* of the first such cluster in cluster order.
C22_FirstClusterWins ==
    (op = "discover" /\ discovery.pc \in {"enhance", "save", "returned"}) =>
        \A k \in 1..Len(discovery.suggestions) :
            LET name == discovery.suggestions[k].key
            IN  /\ MadeOf(discovery.suggestions[k].value, FirstNamed(name))
                /\ (discovery.pc = "returned" /\ ~StoredBefore(name))
                       => MadeOf(DictGet(discovered_patterns, name), FirstNamed(name))

\* the history the instance started from was empty
StartedEmpty == loaded.patterns = <<>> /\ loaded.topics = <<>>

\* C23: starting from an empty history, the trend list holds exactly one
\* record per name of the history map, in the order in which the names were
\* first discovered; a run that rediscovers a name appends no trend record.
C23_OneTrendPerName ==
    (op = "discover" /\ StartedEmpty) =>
        /\ Len(emerging_topics) = Len(discovered_patterns)
        /\ \A k \in 1..Len(emerging_topics) :
              /\ emerging_topics[k].name = discovered_patterns[k].key
              /\ emerging_topics[k].discovered = discovered_patterns[k].value.discovered_at
        /\ \A k \in 1..Len(emerging_topics), m \in 1..Len(emerging_topics) :
              k < m => emerging_topics[k].discovered <= emerging_topics[m].discovered

\* from an empty history, the second run rediscovered the name the first run
\* had stored and discovered a new one: two names, two trend records
C23_Witness ==
    /\ Returned_ /\ StartedEmpty /\ discovery.n = 2
    /\ Len(discovery.suggestions) = 2
    /\ Len(emerging_topics) = 2
    /\ emerging_topics[1].discovered = 1 /\ emerging_topics[2].discovered = 2
    /\ \E k \in 1..2 : discovery.suggestions[k].key = emerging_topics[1].name

\* a confidence in [0, 1] with at most two decimals
IsConfidence(c) == 0 <= c /\ c <= ConfidenceUnit /\ c % (ConfidenceUnit \div 100) = 0

\* C25: the confidence of every suggestion record that
\* analyze_uncategorized_patterns returns and writes to the history is in
\* [0, 1] and has at most 2 decimals, whether or not the enhancement step
\* merged fields into the record.
C25_ConfidenceInRange ==
    op = "discover" =>
        /\ discovery.pc \in {"save", "returned"} =>
              \A k \in 1..Len(discovery.suggestions) :
                  IsConfidence(discovery.suggestions[k].value.confidence)
        /\ \A k \in 1..Len(discovered_patterns) :
              IsConfidence(discovered_patterns[k].value.confidence)
        /\ \A k \in 1..Len(emerging_topics) : IsConfidence(emerging_topics[k].confidence)

\* the enhancement call failed, or its answer holds no JSON object, or JSON
\* that does not parse, or JSON whose value under a suggested name is no
\* object
Malformed(response) ==
    \/ response.kind = "raised"
    \/ response.kind = "text" /\ response.json \in {"none", "invalid"}
    \/ /\ response.kind = "text" /\ response.json = "object"
       /\ \E k \in 1..Len(discovery.heuristic) :
             /\ discovery.heuristic[k].key \in DOMAIN response.object
             /\ response.object[discovery.heuristic[k].key].type # "object"

\* C26: when the enhancement call fails or the answer is malformed,
\* _enhance_with_ai_analysis returns the heuristic suggestions with no field
\* of any record changed.
C26_MalformedKeepsHeuristic ==
    (op = "discover" /\ discovery.pc \in {"save", "returned"} /\ Malformed(discovery.response)) =>
        discovery.suggestions = discovery.heuristic

-----------------------------------------------------------------------------
(* process_articles with every call of the backend taken step by step:     *)
(* the request (Request), each answer of the backend to it (Answer), and   *)
(* the return to the caller through the exception handlers on the way      *)
(* (Resume).  call holds the call in flight and requests the answers the   *)
(* backend gave; the cache, the clock and the counters of the client are   *)
(* those of SpecService and stay as they are here.                         *)

MaxRecursion == 2    \* frames of _make_api_request the interpreter allows (recursion limit)
MaxProcessed == 2    \* length of the list given to process_articles

\* the classes of the exceptions a call can raise, each with its base class
BaseClass ==
    [RecursionError |-> "RuntimeError", RuntimeError |-> "Exception",
     KeyError |-> "LookupError", LookupError |-> "Exception",
     ConnectionError |-> "RequestException", RequestException |-> "OSError",
     OSError |-> "Exception", Exception |-> "BaseException"]

RECURSIVE is_instance(_, _)
\* isinstance(e, class) for an exception e of class raised
is_instance(raised, class) ==
    \/ raised = class
    \/ raised \in DOMAIN BaseClass /\ is_instance(BaseClass[raised], class)

\* the handler that catches connection failures only
handles_requests_only == "RequestException"

\* "except Exception" in is_similar_to, batch_categorize,
\* _ai_categorize_batch and _categorize_articles
similarity_handles == "Exception"
batch_categorize_handles == "Exception"
ai_categorize_batch_handles == "Exception"
categorize_articles_handles == "Exception"

\* a call that raised an exception of this class
Raising_(class) == [raised |-> TRUE, class |-> class]

\* what the backend does with one request: a good answer, an answer whose
\* body holds no text, a rate-limit status, another error status, no answer
Outcomes == {"success", "malformed", "rate_limited", "error_status", "exception"}

\* the texts of a good answer to the prompt of the caller, texts that are
\* not what the prompt asked for among them
TextsFor(site) ==
    IF site = "batch_categorize"
    THEN BatchReplies(Cardinality(BatchOf(articles, i))) \ { Raised }
    ELSE BackendReplies \ { Raised }

\* "return self._make_api_request(prompt, max_tokens, model)"
Retry == [retry |-> TRUE]

\* _make_api_request at recursion depth depth: what it gives call_claude, or
\* the call of itself
make_api_request(outcome, site, depth) ==
    IF outcome = "success" THEN TextsFor(site)
    ELSE IF outcome = "malformed" THEN { Raising_("KeyError") }
    ELSE IF outcome = "exception" THEN { Raising_("ConnectionError") }
    ELSE IF outcome = "error_status" THEN { Raising_("Exception") }
    ELSE IF depth < MaxRecursion THEN { Retry }
    ELSE { Raising_("RecursionError") }

\* is_similar_to asks the backend: there is a key and the urls differ
asks_backend == ai_available /\ input[i].url # articles[j].url

Request ==
    /\ op = "process" /\ call.pc = "idle"
    /\ IF pass = 1 THEN pc = "batch" ELSE pass = 2 /\ pc = "compare" /\ asks_backend
    /\ call' = [pc |-> "waiting", n |-> call.n + 1, depth |-> 1,
                site |-> IF pass = 1 THEN "batch_categorize" ELSE "is_similar_to"]
    /\ UNCHANGED <<pc, op, pass, input, articles, i, j, is_similar, judged, ai_available, candidate,
                   seen_hashes, result, target_categories, config_settings, pipeline_vars,
                   clock, last_call_time, response_cache, stats, requests, discovery_vars>>

Answer ==
    /\ op = "process" /\ call.pc = "waiting"
    /\ \E outcome \in Outcomes :
          /\ requests' = Append(requests, [call |-> call.n, answer |-> outcome])
          /\ \E given \in make_api_request(outcome, call.site, call.depth) :
                call' = IF given = Retry
                        THEN [call EXCEPT !.depth = @ + 1]
                        ELSE [pc |-> "answered", n |-> call.n, site |-> call.site, reply |-> given]
    /\ UNCHANGED <<pc, op, pass, input, articles, i, j, is_similar, judged, ai_available, candidate,
                   seen_hashes, result, target_categories, config_settings, pipeline_vars,
                   clock, last_call_time, response_cache, stats, discovery_vars>>

\* the exception leaves process_articles
Propagate ==
    /\ pc' = "raised"
    /\ UNCHANGED <<op, pass, input, articles, i, j, is_similar, judged, ai_available, candidate,
                   seen_hashes, result, target_categories, config_settings, pipeline_vars,
                   discovery_vars>>

\* what call_claude gave, as its callers see it
Seen(reply) == IF reply.raised THEN Raised ELSE reply

\* the call made for a batch returns through batch_categorize,
\* _ai_categorize_batch and _categorize_articles
ResumeCategorize(reply) ==
    IF \/ ~reply.raised
       \/ is_instance(reply.class, batch_categorize_handles)
       \/ is_instance(reply.class, ai_categorize_batch_handles)
    THEN CategorizeBatchWith(Seen(reply))
    ELSE IF is_instance(reply.class, categorize_articles_handles)
    THEN /\ articles' = fallback_categorization(articles, target_categories, config_settings)
         /\ pc' = "done" /\ i' = 0
         /\ UNCHANGED <<op, pass, input, j, is_similar, judged, ai_available, candidate,
                        seen_hashes, result, target_categories, config_settings, pipeline_vars,
                        discovery_vars>>
    ELSE Propagate

\* the call made for a comparison returns through is_similar_to
ResumeCompare(reply) ==
    IF reply.raised /\ ~is_instance(reply.class, similarity_handles)
    THEN Propagate
    ELSE HandleCompareWith(Seen(reply))

Resume ==
    /\ op = "process" /\ call.pc = "answered"
    /\ call' = [pc |-> "idle", n |-> call.n]
    /\ IF call.site = "batch_categorize"
       THEN ResumeCategorize(call.reply)
       ELSE ResumeCompare(call.reply)
    /\ UNCHANGED <<clock, last_call_time, response_cache, stats, requests>>

\* a comparison is_similar_to settles without the backend
CompareLocal ==
    /\ op = "process" /\ pass = 2 /\ pc = "compare" /\ ~asks_backend
    /\ HandleCompareWith(Raised)
    /\ UNCHANGED service_vars

\* the steps of process_articles follow one another up to _filter_and_rank
StepNext == pass < 4 /\ ProcessNext

-----------------------------------------------------------------------------
(* Specification SpecBackend: process_articles with a catalog that is not  *)
(* empty, on lists of up to MaxProcessed articles of which two can have the *)
(* same url, with and without a key                                        *)

BackendList(m, ts, us) ==
    [n \in 1..m |-> MkArticle(n, ProcessTitles[ts[n]], <<"u">> \o Numeral(us[n]), <<>>,
                              "uncategorized", 1, 0)]

InitBackend ==
    /\ NoService /\ NoDiscovery
    /\ op = "process" /\ pc = "start" /\ pass = 1
    /\ ai_available \in BOOLEAN
    /\ \E m \in 0..MaxProcessed : \E ts \in [1..m -> 2..3], us \in [1..m -> 1..2] :
          input = BackendList(m, ts, us)
    /\ \E cfg \in ProcessConfigs : target_categories = cfg[1] /\ config_settings = cfg[2]
    /\ articles = input
    /\ summary = [id \in 1..Len(input) |-> <<>>]
    /\ replies = <<>>
    /\ result = "none"
    /\ NoLoop /\ NoFetcher

NextBackend ==
    \/ ProcessEmpty
    \/ CategorizeStart
    \/ Request \/ Answer \/ Resume
    \/ StepNext
    \/ HandleStart \/ CompareLocal
    \/ CalculateScores
    \/ FilterAndRank

SpecBackend == InitBackend /\ [][NextBackend]_vars

\* process_articles returned its list
ProcessReturned == op = "process" /\ ((pass = 4 /\ pc = "done") \/ pass = 5)

\* process_articles is running: it neither returned nor raised
CanStep == ~ProcessReturned /\ pc # "raised"

\* the interpreter runs the program on: WF_vars(NextBackend), with the
\* states in which a step can be taken written out as CanStep
Progress == []<>(~CanStep) \/ []<><<NextBackend>>_vars

\* every request ends (requests.post has a timeout of 30 seconds and the
\* backend answers or the call raises), and the program, which is
\* sequential, takes the step it is at
SpecBackendFair == SpecBackend /\ WF_vars(Answer) /\ Progress

\* C27: with a catalog that is not empty, whatever the backend does with
\* each request (a good answer, an error status, a rate-limit status time
\* after time, an exception, a malformed answer), process_articles
\* eventually returns a list and does not raise.
C27_EventuallyReturns == <>ProcessReturned

\* process_articles returned after one call was answered with a rate-limit
\* status until the recursion limit, and another with an error status, an
\* exception or a malformed body
C27_Witness ==
    /\ ProcessReturned /\ ai_available
    /\ \E a \in 1..call.n :
          /\ Cardinality(RequestsOf(a)) = MaxRecursion
          /\ \A k \in RequestsOf(a) : requests[k].answer = "rate_limited"
    /\ \E b \in 1..call.n :
          \E k \in RequestsOf(b) : requests[k].answer \in {"error_status", "exception", "malformed"}

====
